---- MODULE Spec2Model ----
(***************************************************************************)
(* Verification model of the irsb-solver storage and run pipeline.         *)
(*                                                                         *)
(*   SpecLog    concurrent appendJsonl calls on one log file                *)
(*   SpecStore  concurrent atomicWrite / writeArtifact / writeArtifacts     *)
(*   Spec       run-fixture invocations (cli.ts) sharing one data dir       *)
(*                                                                         *)
(* A file is a record [exists, data, ino]: data is the sequence of chunks   *)
(* on disk, ino the inode the name currently points to.  A process is one   *)
(* OS process; its synchronous code runs one file-system call per step, so  *)
(* that other processes interleave exactly between system calls.            *)
(***************************************************************************)
EXTENDS Integers, Sequences, FiniteSets, TLC

\* ---------------------------------------------------------------- bounds
NumProcs == 2
MaxCalls == 2
MaxWrites == 1
MaxRuns == 1
MaxNow == 2
MaxSegs == 3
MaxTampers == 1
MaxOps == 1

Procs == 1..NumProcs

\* ---------------------------------------------------------------- files
NoFile == [exists |-> FALSE, data |-> <<>>, ino |-> 0]

\* All of a sequence except its last element: what a write cut short leaves.
Front(s) == IF Len(s) = 0 THEN s ELSE SubSeq(s, 1, Len(s) - 1)

\* JSON.stringify(record) + "\n": the text of one line, written as two
\* chunks, the second of which ends with the newline.
Line(rec) == << <<rec, 1>>, <<rec, 2>> >>

\* The data is a sequence of complete lines (what readJsonl can parse).
WholeLines(data) ==
    /\ Len(data) % 2 = 0
    /\ \A i \in 1..(Len(data) \div 2) :
         /\ data[2 * i - 1][2] = 1
         /\ data[2 * i][2] = 2
         /\ data[2 * i - 1][1] = data[2 * i][1]

\* The records of the complete lines of a well-formed file, in order.
RecordsOf(data) == [i \in 1..(Len(data) \div 2) |-> data[2 * i][1]]

OldRecord == [by |-> 0, n |-> <<>>, reasons |-> <<>>]

VARIABLES
    pc,        \* [Procs -> position of the process in its code]
    calls,     \* [Procs -> number of calls the process has started]
    logFile,   \* the JSONL log file (REFUSALS_PATH)
    lock,      \* ["file", "dir"] -> holders of that proper-lockfile lock
    aj,        \* [Procs -> locals of the running appendJsonl call]
    tmpf,      \* temp files on disk: <<proc, call, index>> -> data
    inoNext,   \* next free inode number
    log0,      \* the log file before any call (history)
    returned,  \* records whose appendJsonl call returned normally (history)
    thrown,    \* records whose appendJsonl call threw (history)
    target,    \* [TargetNames -> file under the run directory]
    wa,        \* [Procs -> locals of the running artifact write]
    run,       \* [Procs -> locals of the run-fixture invocation]
    tree,      \* the run directory: artifact files, evidence files, clock
    eb,        \* [Procs -> locals of createEvidenceBundle / validateEvidenceBundle]
    pf         \* a path function applied to an input, with its result

logVars == <<logFile, lock, aj, inoNext, log0, returned, thrown>>
evVars == <<tree, eb, pf>>
nonLogVars == <<target, wa, run, tree, eb, pf>>
nonBundleVars == <<logFile, lock, aj, inoNext, log0, returned, thrown, tmpf, target,
                   wa, run, pf>>
nonStoreVars == <<logFile, lock, aj, inoNext, log0, returned, thrown, run, tree, eb, pf>>

NoCall == [rec |-> OldRecord, lockTarget |-> "dir", existing |-> <<>>,
           fd |-> 0, err |-> "none", held |-> FALSE]

InAppend == {"aj_lock", "aj_check", "aj_tmp_open", "aj_tmp_write", "aj_rename",
             "aj_new_open", "aj_new_write1", "aj_new_write2", "aj_unlock"}

TmpId(p) == <<p, calls[p], 0>>

\* ------------------------------------------------------------ appendJsonl
\* :53-61  ensureDir, the line, and the choice of the lock target.
AppendJsonlBegin(p, rec) ==
    /\ aj' = [aj EXCEPT ![p] =
                [rec |-> rec,
                 lockTarget |-> IF logFile.exists THEN "file" ELSE "dir",
                 existing |-> <<>>, fd |-> 0, err |-> "none", held |-> FALSE]]
    /\ pc' = [pc EXCEPT ![p] = "aj_lock"]

\* proper-lockfile: a lock is free, or stale once its holder has died.
LockAcquirable(t) == \A h \in lock[t] : pc[h] = "crashed"

\* lockSync whose failure leaves the caller registered as a holder of the
\* lock target.
AjLockLeavesHolder(p) ==
    /\ pc[p] = "aj_lock"
    /\ \/ /\ LockAcquirable(aj[p].lockTarget)
          /\ lock' = [lock EXCEPT ![aj[p].lockTarget] = {p}]
          /\ aj' = [aj EXCEPT ![p].held = TRUE]
          /\ pc' = [pc EXCEPT ![p] = "aj_check"]
       \/ /\ ~LockAcquirable(aj[p].lockTarget)
          /\ aj' = [aj EXCEPT ![p].err = "lock"]
          /\ pc' = [pc EXCEPT ![p] = "aj_threw"]
          /\ lock' = [lock EXCEPT ![aj[p].lockTarget] = @ \cup {p}]
    /\ UNCHANGED <<calls, logFile, tmpf, inoNext, log0, returned, thrown, nonLogVars>>

\* :65  lockSync(lockTarget, retries): acquired, or the retries run out and
\* it throws; the catch at :82-88 rethrows.  Waiting is stuttering.
AjLock(p) ==
    /\ pc[p] = "aj_lock"
    /\ \/ /\ LockAcquirable(aj[p].lockTarget)
          /\ lock' = [lock EXCEPT ![aj[p].lockTarget] = {p}]
          /\ aj' = [aj EXCEPT ![p].held = TRUE]
          /\ pc' = [pc EXCEPT ![p] = "aj_check"]
       \/ /\ ~LockAcquirable(aj[p].lockTarget)
          /\ aj' = [aj EXCEPT ![p].err = "lock"]
          /\ pc' = [pc EXCEPT ![p] = "aj_threw"]
          /\ UNCHANGED lock
    /\ UNCHANGED <<calls, logFile, tmpf, inoNext, log0, returned, thrown, nonLogVars>>

\* :68-70  existsSync(filePath), then readFileSync on the append path.
AjCheck(p) ==
    /\ pc[p] = "aj_check"
    /\ \/ /\ logFile.exists
          /\ aj' = [aj EXCEPT ![p].existing = logFile.data]
          /\ pc' = [pc EXCEPT ![p] = "aj_tmp_open"]
       \/ /\ ~logFile.exists
          /\ pc' = [pc EXCEPT ![p] = "aj_new_open"]
          /\ UNCHANGED aj
    /\ UNCHANGED <<calls, logFile, lock, tmpf, inoNext, log0, returned, thrown, nonLogVars>>

\* :71-72  writeFileSync(temp, ...) opens the temp file (created empty), or
\* fails before anything is created.
AjTmpOpen(p) ==
    /\ pc[p] = "aj_tmp_open"
    /\ \/ /\ tmpf' = (TmpId(p) :> <<>>) @@ tmpf
          /\ pc' = [pc EXCEPT ![p] = "aj_tmp_write"]
          /\ UNCHANGED aj
       \/ /\ aj' = [aj EXCEPT ![p].err = "io"]
          /\ pc' = [pc EXCEPT ![p] = "aj_unlock"]
          /\ UNCHANGED tmpf
    /\ UNCHANGED <<calls, logFile, lock, inoNext, log0, returned, thrown, nonLogVars>>

\* :72  writeFileSync(temp, existing + line) writes the data, or fails with
\* part of it written.
AjTmpWrite(p) ==
    /\ pc[p] = "aj_tmp_write"
    /\ \/ /\ tmpf' = [tmpf EXCEPT ![TmpId(p)] = aj[p].existing \o Line(aj[p].rec)]
          /\ pc' = [pc EXCEPT ![p] = "aj_rename"]
          /\ UNCHANGED aj
       \/ /\ tmpf' = [tmpf EXCEPT ![TmpId(p)] =
                        Front(aj[p].existing \o Line(aj[p].rec))]
          /\ aj' = [aj EXCEPT ![p].err = "io"]
          /\ pc' = [pc EXCEPT ![p] = "aj_unlock"]
    /\ UNCHANGED <<calls, logFile, lock, inoNext, log0, returned, thrown, nonLogVars>>

\* The temp files on disk without one of them.
Without(f, id) == [x \in (DOMAIN f) \ {id} |-> f[x]]

\* :73  renameSync(temp, filePath): the name now points to the temp's inode.
AjRename(p) ==
    /\ pc[p] = "aj_rename"
    /\ \/ /\ logFile' = [exists |-> TRUE, data |-> tmpf[TmpId(p)], ino |-> inoNext]
          /\ inoNext' = inoNext + 1
          /\ tmpf' = Without(tmpf, TmpId(p))
          /\ UNCHANGED aj
       \/ /\ aj' = [aj EXCEPT ![p].err = "io"]
          /\ UNCHANGED <<logFile, inoNext, tmpf>>
    /\ pc' = [pc EXCEPT ![p] = "aj_unlock"]
    /\ UNCHANGED <<calls, lock, log0, returned, thrown, nonLogVars>>

\* :76  writeFileSync(filePath, line) on the first-record path: open with
\* O_CREAT | O_TRUNC directly on the target name.
AjNewOpen(p) ==
    /\ pc[p] = "aj_new_open"
    /\ \/ /\ logFile' = IF logFile.exists
                        THEN [logFile EXCEPT !.data = <<>>]
                        ELSE [exists |-> TRUE, data |-> <<>>, ino |-> inoNext]
          /\ inoNext' = IF logFile.exists THEN inoNext ELSE inoNext + 1
          /\ aj' = [aj EXCEPT ![p].fd = logFile'.ino]
          /\ pc' = [pc EXCEPT ![p] = "aj_new_write1"]
       \/ /\ aj' = [aj EXCEPT ![p].err = "io"]
          /\ pc' = [pc EXCEPT ![p] = "aj_unlock"]
          /\ UNCHANGED <<logFile, inoNext>>
    /\ UNCHANGED <<calls, lock, tmpf, log0, returned, thrown, nonLogVars>>

\* write(fd, chunk): lands in the opened inode, which the name may no longer
\* point to after another process's rename.
WriteFd(fd, chunk) ==
    IF logFile.ino = fd
    THEN [logFile EXCEPT !.data = Append(logFile.data, chunk)]
    ELSE logFile

\* :76  the body of writeFileSync(filePath, line): first part of the line.
AjNewWrite1(p) ==
    /\ pc[p] = "aj_new_write1"
    /\ \/ /\ logFile' = WriteFd(aj[p].fd, Line(aj[p].rec)[1])
          /\ pc' = [pc EXCEPT ![p] = "aj_new_write2"]
          /\ UNCHANGED aj
       \/ /\ aj' = [aj EXCEPT ![p].err = "io"]
          /\ pc' = [pc EXCEPT ![p] = "aj_unlock"]
          /\ UNCHANGED logFile
    /\ UNCHANGED <<calls, lock, tmpf, inoNext, log0, returned, thrown, nonLogVars>>

\* :76  the rest of the line and its newline.
AjNewWrite2(p) ==
    /\ pc[p] = "aj_new_write2"
    /\ \/ /\ logFile' = WriteFd(aj[p].fd, Line(aj[p].rec)[2])
          /\ UNCHANGED aj
       \/ /\ aj' = [aj EXCEPT ![p].err = "io"]
          /\ UNCHANGED logFile
    /\ pc' = [pc EXCEPT ![p] = "aj_unlock"]
    /\ UNCHANGED <<calls, lock, tmpf, inoNext, log0, returned, thrown, nonLogVars>>

\* :78-88  finally unlockSync(lockTarget); then return, or rethrow.
AjUnlock(p) ==
    /\ pc[p] = "aj_unlock"
    /\ lock' = [lock EXCEPT ![aj[p].lockTarget] = {}]
    /\ aj' = [aj EXCEPT ![p].held = FALSE]
    /\ pc' = [pc EXCEPT ![p] = IF aj[p].err = "none" THEN "aj_returned" ELSE "aj_threw"]
    /\ UNCHANGED <<calls, logFile, tmpf, inoNext, log0, returned, thrown, nonLogVars>>

\* The process dies inside appendJsonl: its files and its lock stay behind.
AjCrash(p) ==
    /\ pc[p] \in InAppend
    /\ pc' = [pc EXCEPT ![p] = "crashed"]
    /\ UNCHANGED <<calls, tmpf>>
    /\ UNCHANGED logVars
    /\ UNCHANGED nonLogVars

\* ------------------------------------------------------------ ArtifactStore
\* Names under the run directory: the SAFE_REPORT artifacts (artifactPaths.ts)
\* and the evidence files createEvidenceBundle writes.
ArtifactNames == {"report.json", "report.md"}
EvidenceNames == {"manifest.json", "manifest.sha256"}
TargetNames == ArtifactNames \cup EvidenceNames

\* A file content, written by writeFileSync in two chunks.
FileData(c) == << <<c, 1>>, <<c, 2>> >>

\* The content of a file that was there before any call.
OldContent == [by |-> 0, n |-> 0]

\* The content a caller passes: its own, one per call.
ContentOf(p) == [by |-> p, n |-> calls[p] + 1]

NoWrite == [op |-> "none", batch |-> <<>>, tempFiles |-> <<>>, results |-> <<>>,
            k |-> 1, failPhase |-> 0, committed |-> {}]

InWrite == {"wa_open", "wa_write", "wa_rename", "wa_cleanup",
            "ws_open", "ws_write", "ws_rename"}

\* tempPath(): `.tmp-<16 random hex digits>` beside the target, one per write.
ArtTmpId(p, i) == <<p, calls[p], i>>

\* The entry of the batch that phase 1 is writing.
Current(p) == wa[p].batch[Len(wa[p].tempFiles) + 1]

\* Entry of a call: the locals of writeArtifacts / writeArtifact / atomicWrite.
WriteBegin(p, op, batch) ==
    /\ wa' = [wa EXCEPT ![p] = [NoWrite EXCEPT !.op = op, !.batch = batch]]
    /\ pc' = [pc EXCEPT ![p] = IF op = "writeArtifacts" THEN "wa_open" ELSE "ws_open"]

\* writeArtifacts :74-76  ensureDir, tempPath, and the open of writeFileSync:
\* the temp file is created empty, or the call fails before it exists.
WaOpen(p) ==
    /\ pc[p] = "wa_open"
    /\ \/ /\ tmpf' = (ArtTmpId(p, Len(wa[p].tempFiles) + 1) :> <<>>) @@ tmpf
          /\ pc' = [pc EXCEPT ![p] = "wa_write"]
          /\ UNCHANGED wa
       \/ /\ wa' = [wa EXCEPT ![p].failPhase = 1]
          /\ pc' = [pc EXCEPT ![p] = "wa_cleanup"]
          /\ UNCHANGED tmpf
    /\ UNCHANGED <<calls, target>>
    /\ UNCHANGED nonStoreVars

\* What the temp file holds when writeFileSync(temp, content) has returned.
WrittenShort(c) == Front(FileData(c))
Written(c) == FileData(c)

\* writeArtifacts :76-77  the write of the temp file, then tempFiles.push;
\* a failing write leaves part of the data in a file that was never pushed.
WaWrite(p) ==
    /\ pc[p] = "wa_write"
    /\ LET id == ArtTmpId(p, Len(wa[p].tempFiles) + 1) IN
       \/ /\ tmpf' = [tmpf EXCEPT ![id] = Written(Current(p).content)]
          /\ wa' = [wa EXCEPT ![p].tempFiles =
                       Append(@, [temp |-> id, target |-> Current(p).path])]
          /\ pc' = [pc EXCEPT ![p] =
                       IF Len(wa[p].tempFiles) + 1 = Len(wa[p].batch)
                       THEN "wa_rename" ELSE "wa_open"]
       \/ /\ tmpf' = [tmpf EXCEPT ![id] = WrittenShort(Current(p).content)]
          /\ wa' = [wa EXCEPT ![p].failPhase = 1]
          /\ pc' = [pc EXCEPT ![p] = "wa_cleanup"]
    /\ UNCHANGED <<calls, target>>
    /\ UNCHANGED nonStoreVars

\* renameSync(temp, path): the target name now holds the temp file.
Renamed(tgt, path, id) == [tgt EXCEPT ![path] = [exists |-> TRUE, data |-> tmpf[id]]]

\* writeArtifacts :81-87  phase 2, one renameSync + statSync per iteration;
\* a failing rename goes to the catch with the earlier renames done.
WaRename(p) ==
    /\ pc[p] = "wa_rename"
    /\ LET e == wa[p].tempFiles[Len(wa[p].results) + 1] IN
       \/ /\ target' = Renamed(target, e.target, e.temp)
          /\ tmpf' = Without(tmpf, e.temp)
          /\ wa' = [wa EXCEPT ![p].results = Append(@, e.target),
                              ![p].committed = @ \cup {e.target}]
          /\ pc' = [pc EXCEPT ![p] =
                       IF Len(wa[p].results) + 1 = Len(wa[p].tempFiles)
                       THEN "wa_returned" ELSE "wa_rename"]
       \/ /\ wa' = [wa EXCEPT ![p].failPhase = 2]
          /\ pc' = [pc EXCEPT ![p] = "wa_cleanup"]
          /\ UNCHANGED <<target, tmpf>>
    /\ UNCHANGED calls
    /\ UNCHANGED nonStoreVars

\* The temp files on disk after the catch block has dealt with one entry.
CleanupTemp(id) == Without(tmpf, id)

\* writeArtifacts :90-101  the catch: existsSync + unlinkSync for each entry
\* of tempFiles, then rethrow.
WaCleanup(p) ==
    /\ pc[p] = "wa_cleanup"
    /\ \/ /\ wa[p].k <= Len(wa[p].tempFiles)
          /\ wa[p].tempFiles[wa[p].k].temp \in DOMAIN tmpf
          /\ tmpf' = CleanupTemp(wa[p].tempFiles[wa[p].k].temp)
          /\ wa' = [wa EXCEPT ![p].k = @ + 1]
          /\ UNCHANGED pc
       \/ /\ wa[p].k <= Len(wa[p].tempFiles)
          /\ wa[p].tempFiles[wa[p].k].temp \notin DOMAIN tmpf
          /\ wa' = [wa EXCEPT ![p].k = @ + 1]
          /\ UNCHANGED <<pc, tmpf>>
       \/ /\ wa[p].k > Len(wa[p].tempFiles)
          /\ pc' = [pc EXCEPT ![p] = "wa_threw"]
          /\ UNCHANGED <<wa, tmpf>>
    /\ UNCHANGED <<calls, target>>
    /\ UNCHANGED nonStoreVars

\* writeArtifact :48-51 / atomicWrite :95-101  the open of the temp file.
WsOpen(p) ==
    /\ pc[p] = "ws_open"
    /\ \/ /\ tmpf' = (ArtTmpId(p, 1) :> <<>>) @@ tmpf
          /\ wa' = [wa EXCEPT ![p].tempFiles =
                       <<[temp |-> ArtTmpId(p, 1), target |-> wa[p].batch[1].path]>>]
          /\ pc' = [pc EXCEPT ![p] = "ws_write"]
       \/ /\ wa' = [wa EXCEPT ![p].failPhase = 1]
          /\ pc' = [pc EXCEPT ![p] = "ws_threw"]
          /\ UNCHANGED tmpf
    /\ UNCHANGED <<calls, target>>
    /\ UNCHANGED nonStoreVars

\* Where a single write goes when writeFileSync(temp, content) throws: the
\* exception leaves the function, no rename happens.
WsSwallowWriteError == "ws_rename"
WsAfterWriteError == "ws_threw"

\* writeArtifact :51 / atomicWrite :101  the write of the temp file.
WsWrite(p) ==
    /\ pc[p] = "ws_write"
    /\ \/ /\ tmpf' = [tmpf EXCEPT ![ArtTmpId(p, 1)] = Written(wa[p].batch[1].content)]
          /\ pc' = [pc EXCEPT ![p] = "ws_rename"]
          /\ UNCHANGED wa
       \/ /\ tmpf' = [tmpf EXCEPT ![ArtTmpId(p, 1)] =
                         WrittenShort(wa[p].batch[1].content)]
          /\ wa' = [wa EXCEPT ![p].failPhase = 1]
          /\ pc' = [pc EXCEPT ![p] = WsAfterWriteError]
    /\ UNCHANGED <<calls, target>>
    /\ UNCHANGED nonStoreVars

\* writeArtifact :52-54 / atomicWrite :102  renameSync(temp, filePath) (and
\* statSync); no cleanup on failure.
WsRename(p) ==
    /\ pc[p] = "ws_rename"
    /\ LET e == wa[p].tempFiles[1] IN
       \/ /\ target' = Renamed(target, e.target, e.temp)
          /\ tmpf' = Without(tmpf, e.temp)
          /\ wa' = [wa EXCEPT ![p].results = <<e.target>>,
                              ![p].committed = {e.target}]
          /\ pc' = [pc EXCEPT ![p] = "ws_returned"]
       \/ /\ wa' = [wa EXCEPT ![p].failPhase = 2]
          /\ pc' = [pc EXCEPT ![p] = "ws_threw"]
          /\ UNCHANGED <<target, tmpf>>
    /\ UNCHANGED calls
    /\ UNCHANGED nonStoreVars

\* The process dies inside a write: its temp files stay behind.
StoreCrash(p) ==
    /\ pc[p] \in InWrite
    /\ pc' = [pc EXCEPT ![p] = "crashed"]
    /\ UNCHANGED <<calls, tmpf, target, wa>>
    /\ UNCHANGED nonStoreVars

WriteNext(p) ==
    \/ WaOpen(p) \/ WaWrite(p) \/ WaRename(p) \/ WaCleanup(p)
    \/ WsOpen(p) \/ WsWrite(p) \/ WsRename(p) \/ StoreCrash(p)

\* ---------------------------------------------------- SpecLog: the callers
\* A caller of appendJsonl(filePath, record) with a fresh record.
LogCall(p) ==
    /\ pc[p] = "idle"
    /\ calls[p] < MaxCalls
    /\ calls' = [calls EXCEPT ![p] = @ + 1]
    /\ AppendJsonlBegin(p, [by |-> p, n |-> <<calls[p] + 1>>, reasons |-> <<>>])
    /\ UNCHANGED <<logFile, lock, tmpf, inoNext, log0, returned, thrown, nonLogVars>>

\* The call is over: the caller sees the return or the exception.
LogDone(p) ==
    /\ pc[p] \in {"aj_returned", "aj_threw"}
    /\ returned' = IF pc[p] = "aj_returned" THEN returned \cup {aj[p].rec} ELSE returned
    /\ thrown' = IF pc[p] = "aj_threw" THEN thrown \cup {aj[p].rec} ELSE thrown
    /\ pc' = [pc EXCEPT ![p] = "idle"]
    /\ UNCHANGED <<calls, logFile, lock, aj, tmpf, inoNext, log0, nonLogVars>>

\* -------------------------------------------------- SpecStore: the callers
\* A caller of one of the three writers, with its own content.
StoreCall(p) ==
    /\ pc[p] = "idle"
    /\ calls[p] < MaxWrites
    /\ calls' = [calls EXCEPT ![p] = @ + 1]
    /\ \/ WriteBegin(p, "writeArtifacts",
                     <<[path |-> "report.json", content |-> ContentOf(p)],
                       [path |-> "report.md", content |-> ContentOf(p)]>>)
       \/ \E t \in ArtifactNames :
            WriteBegin(p, "writeArtifact", <<[path |-> t, content |-> ContentOf(p)]>>)
       \/ \E t \in EvidenceNames :
            WriteBegin(p, "atomicWrite", <<[path |-> t, content |-> ContentOf(p)]>>)
    /\ UNCHANGED <<tmpf, target>>
    /\ UNCHANGED nonStoreVars

\* The call is over: the caller sees the return or the exception.
StoreDone(p) ==
    /\ pc[p] \in {"wa_returned", "wa_threw", "ws_returned", "ws_threw"}
    /\ pc' = [pc EXCEPT ![p] = "idle"]
    /\ UNCHANGED <<calls, tmpf, target, wa>>
    /\ UNCHANGED nonStoreVars

\* ------------------------------------------------------------- run-fixture
\* The intent files given to run-fixture.  All carry the same intentId, jobType
\* and inputs, hence the same runId and run directory; expiresAt 0 stands for
\* an absent expiresAt, inputsLen for the length of canonicalJson(inputs).
GoodIntent ==
    [wellFormed |-> TRUE, intentId |-> "fixture", jobType |-> "SAFE_REPORT",
     requester |-> "alice", expiresAt |-> 0, inputsLen |-> 2, inputsBytes |-> 2]
StaleIntent == [GoodIntent EXCEPT !.requester = "mallory", !.expiresAt = 1]
MalformedIntent == [GoodIntent EXCEPT !.wellFormed = FALSE]
IntentFiles == {GoodIntent, StaleIntent, MalformedIntent}

\* The configurations of the environment: the defaults, a strict policy
\* (maxBytes is POLICY_MAX_ARTIFACT_MB * 1024 * 1024), one the schema rejects.
DefaultConfig ==
    [valid |-> TRUE, POLICY_JOBTYPE_ALLOWLIST |-> {"SAFE_REPORT"},
     requesterAllowlistSet |-> FALSE, POLICY_REQUESTER_ALLOWLIST |-> {},
     maxBytes |-> 5 * 1024 * 1024]
StrictConfig ==
    [valid |-> TRUE, POLICY_JOBTYPE_ALLOWLIST |-> {"OTHER_JOB"},
     requesterAllowlistSet |-> TRUE, POLICY_REQUESTER_ALLOWLIST |-> {"alice"},
     maxBytes |-> 1]
InvalidConfig == [DefaultConfig EXCEPT !.valid = FALSE]
Configs == {DefaultConfig, StrictConfig, InvalidConfig}

\* The checks stopping at the first that fails.
evaluatePolicyShortCircuit(intent, config, now) ==
    LET reasons ==
            IF intent.jobType \notin config.POLICY_JOBTYPE_ALLOWLIST
            THEN <<"jobType">>
            ELSE IF intent.expiresAt # 0 /\ intent.expiresAt < now
            THEN <<"expired">>
            ELSE IF /\ config.requesterAllowlistSet
                    /\ intent.requester \notin config.POLICY_REQUESTER_ALLOWLIST
            THEN <<"requester">>
            ELSE IF intent.inputsLen > config.maxBytes
            THEN <<"size">>
            ELSE <<>>
    IN [allowed |-> Len(reasons) = 0, reasons |-> reasons]
\* evaluatePolicy: the four checks in order, each pushing its reason.
evaluatePolicy(intent, config, now) ==
    LET r1 == IF intent.jobType \notin config.POLICY_JOBTYPE_ALLOWLIST
              THEN <<"jobType">> ELSE <<>>
        r2 == IF intent.expiresAt # 0 /\ intent.expiresAt < now
              THEN <<"expired">> ELSE <<>>
        r3 == IF /\ config.requesterAllowlistSet
                 /\ intent.requester \notin config.POLICY_REQUESTER_ALLOWLIST
              THEN <<"requester">> ELSE <<>>
        r4 == IF intent.inputsLen > config.maxBytes
              THEN <<"size">> ELSE <<>>
        reasons == r1 \o r2 \o r3 \o r4
    IN [allowed |-> Len(reasons) = 0, reasons |-> reasons]

\* computeRunId: sha256 of "run":intentId:jobType:canonicalJson(inputs), the
\* hash standing as the tuple of what it digests.
computeRunId(intent) == <<"run", intent.intentId, intent.jobType, intent.inputsLen>>

\* createRefusalRecord; the timestamp tells the records of two processes apart.
createRefusalRecord(p, intent, runId, reasons) ==
    [by |-> p, n |-> runId, reasons |-> reasons]

\* The content the SAFE_REPORT runner renders for one artifact: a function of
\* the intent and the runId only.
ReportContent(name, runId) == [report |-> name, runId |-> runId]

NoRun ==
    [intent |-> GoodIntent, config |-> DefaultConfig, dryRun |-> FALSE,
     policy |-> [allowed |-> TRUE, reasons |-> <<>>], runId |-> <<>>,
     invoked |-> FALSE, result |-> [status |-> "NONE", error |-> ""],
     listed |-> {}, exit |-> -1, trace |-> <<>>, everInvoked |-> FALSE]

\* process.exit(code).  (everInvoked is history: a runner was invoked by this
\* or an earlier invocation in the slot.)
Exit(p, code) ==
    /\ pc' = [pc EXCEPT ![p] = "exited"]
    /\ run' = [run EXCEPT ![p].exit = code]

\* cli.ts:129  a process starts the run-fixture action on an intent file; a
\* later invocation is a new process with fresh locals.
RunFixture(p) ==
    /\ pc[p] \in {"idle", "exited"}
    /\ calls[p] < MaxRuns
    /\ calls' = [calls EXCEPT ![p] = @ + 1]
    /\ \E intent \in IntentFiles, config \in Configs, dryRun \in BOOLEAN :
         run' = [run EXCEPT ![p] = [NoRun EXCEPT !.intent = intent,
                                                 !.config = config,
                                                 !.dryRun = dryRun,
                                                 !.everInvoked = run[p].everInvoked]]
    /\ pc' = [pc EXCEPT ![p] = "rf_config"]
    /\ wa' = [wa EXCEPT ![p] = NoWrite]
    /\ aj' = [aj EXCEPT ![p] = NoCall]
    /\ UNCHANGED <<tmpf, target, logFile, lock, inoNext, log0, returned, thrown>>
    /\ UNCHANGED evVars

\* cli.ts:134-140  loadConfig() or exit 1.
LoadConfig(p) ==
    /\ pc[p] = "rf_config"
    /\ \/ /\ run[p].config.valid
          /\ pc' = [pc EXCEPT ![p] = "rf_intent"]
          /\ UNCHANGED run
       \/ /\ ~run[p].config.valid
          /\ Exit(p, 1)
    /\ UNCHANGED <<calls, tmpf, target, wa>>
    /\ UNCHANGED logVars
    /\ UNCHANGED evVars

\* cli.ts:143-151  read, parse and normalizeIntent, or exit 1.
LoadIntent(p) ==
    /\ pc[p] = "rf_intent"
    /\ \/ /\ run[p].intent.wellFormed
          /\ pc' = [pc EXCEPT ![p] = "rf_policy"]
          /\ run' = [run EXCEPT ![p].trace = Append(@, "validate")]
       \/ /\ ~run[p].intent.wellFormed
          /\ Exit(p, 1)
    /\ UNCHANGED <<calls, tmpf, target, wa>>
    /\ UNCHANGED logVars
    /\ UNCHANGED evVars

\* cli.ts:154-161  evaluatePolicy at the current time, createExecutionPlan.
EvaluatePolicy(p) ==
    /\ pc[p] = "rf_policy"
    /\ \E now \in 1..MaxNow :
         run' = [run EXCEPT ![p].policy = evaluatePolicy(run[p].intent, run[p].config, now),
                            ![p].runId = computeRunId(run[p].intent),
                            ![p].trace = Append(@, "policy")]
    /\ pc' = [pc EXCEPT ![p] = "rf_gate"]
    /\ UNCHANGED <<calls, tmpf, target, wa>>
    /\ UNCHANGED logVars
    /\ UNCHANGED evVars

\* Where the action goes after the plan is printed.
AfterGateOpen(allowed, dryRun) == IF dryRun THEN "dry" ELSE "run"
\* cli.ts:164, :183  refusal first, then --dry-run, else execution.
AfterGate(allowed, dryRun) ==
    IF ~allowed THEN "refuse" ELSE IF dryRun THEN "dry" ELSE "run"

\* cli.ts:163-190  the policy gate: the refusal record goes to appendJsonl,
\* a dry run exits 0, an allowed intent goes on to execution.
Gate(p) ==
    /\ pc[p] = "rf_gate"
    /\ LET next == AfterGate(run[p].policy.allowed, run[p].dryRun) IN
       \/ /\ next = "refuse"
          /\ AppendJsonlBegin(p, createRefusalRecord(p, run[p].intent, run[p].runId,
                                                     run[p].policy.reasons))
          /\ run' = [run EXCEPT ![p].trace = Append(@, "append")]
       \/ /\ next = "dry"
          /\ Exit(p, 0)
          /\ UNCHANGED aj
       \/ /\ next = "run"
          /\ pc' = [pc EXCEPT ![p] = "rf_runner"]
          /\ UNCHANGED <<aj, run>>
    /\ UNCHANGED <<calls, logFile, lock, tmpf, inoNext, log0, returned, thrown,
                   target, wa>>
    /\ UNCHANGED evVars

\* cli.ts:171-179  appendJsonl has returned, or its exception is caught and
\* printed; either way process.exit(2).
RefusalExit(p) ==
    /\ pc[p] \in {"aj_returned", "aj_threw"}
    /\ returned' = IF pc[p] = "aj_returned" THEN returned \cup {aj[p].rec} ELSE returned
    /\ thrown' = IF pc[p] = "aj_threw" THEN thrown \cup {aj[p].rec} ELSE thrown
    /\ Exit(p, 2)
    /\ UNCHANGED <<calls, logFile, lock, aj, tmpf, inoNext, log0, target, wa>>
    /\ UNCHANGED evVars

\* cli.ts:192-206  createRunContext, getRunner, runner.run(inputs, ctx).
RunnerRun(p) ==
    /\ pc[p] = "rf_runner"
    /\ run' = [run EXCEPT ![p].invoked = TRUE, ![p].everInvoked = TRUE,
                          ![p].trace = Append(@, "execute")]
    /\ pc' = [pc EXCEPT ![p] = "sr_run"]
    /\ UNCHANGED <<calls, tmpf, target, wa>>
    /\ UNCHANGED logVars
    /\ UNCHANGED evVars

\* The SAFE_REPORT runner: it fails with an error string before writing, or
\* renders report.json and report.md and writes them as one batch.
SafeReportRun(p) ==
    /\ pc[p] = "sr_run"
    /\ \/ /\ run' = [run EXCEPT ![p].result = [status |-> "FAILED", error |-> "runner"]]
          /\ pc' = [pc EXCEPT ![p] = "rf_result"]
          /\ UNCHANGED wa
       \/ /\ WriteBegin(p, "writeArtifacts",
                        <<[path |-> "report.json",
                           content |-> ReportContent("report.json", run[p].runId)],
                          [path |-> "report.md",
                           content |-> ReportContent("report.md", run[p].runId)]>>)
          /\ run' = [run EXCEPT ![p].trace = Append(@, "artifacts")]
    /\ UNCHANGED <<calls, tmpf, target>>
    /\ UNCHANGED logVars
    /\ UNCHANGED evVars

\* The runner settles: SUCCESS with the batch written; when writeArtifacts
\* threw, FAILED with the error string, or the rejection reaches the caller.
SafeReportDone(p) ==
    /\ pc[p] \in {"wa_returned", "wa_threw"}
    /\ \/ /\ pc[p] = "wa_returned"
          /\ run' = [run EXCEPT ![p].result = [status |-> "SUCCESS", error |-> ""]]
       \/ /\ pc[p] = "wa_threw"
          /\ \E status \in {"FAILED", "THROWN"} :
               run' = [run EXCEPT ![p].result = [status |-> status, error |-> "io"]]
    /\ pc' = [pc EXCEPT ![p] = "rf_result"]
    /\ UNCHANGED <<calls, tmpf, target, wa>>
    /\ UNCHANGED logVars
    /\ UNCHANGED evVars

\* Where the action goes once runner.run has settled.
AfterRunnerAlways(status) == "rf_evidence"
\* cli.ts:213, :240-248  evidence on SUCCESS; exit 3 on FAILED or a throw.
AfterRunner(status) == IF status = "SUCCESS" THEN "rf_evidence" ELSE "rf_exit3"

\* cli.ts:206-213  the awaited result, printed, decides the branch.
AfterRun(p) ==
    /\ pc[p] = "rf_result"
    /\ pc' = [pc EXCEPT ![p] = AfterRunner(run[p].result.status)]
    /\ UNCHANGED <<calls, tmpf, target, wa, run>>
    /\ UNCHANGED logVars
    /\ UNCHANGED evVars

\* cli.ts:240-248  process.exit(3).
ExitFailure(p) ==
    /\ pc[p] = "rf_exit3"
    /\ Exit(p, 3)
    /\ UNCHANGED <<calls, tmpf, target, wa>>
    /\ UNCHANGED logVars
    /\ UNCHANGED evVars

\* scanArtifacts, up to its first await: existsSync(artifactsDir) and
\* listFilesRecursive give the names present.
ListedArtifacts == {t \in ArtifactNames : target[t].exists}

\* cli.ts:223  createEvidenceBundle(...) is called and not awaited: the async
\* function runs to the first await inside scanArtifacts and hands back a
\* pending promise.
CreateEvidenceBundleCall(p) ==
    /\ pc[p] = "rf_evidence"
    /\ run' = [run EXCEPT ![p].listed = ListedArtifacts,
                          ![p].trace = Append(@, "manifest")]
    /\ pc' = [pc EXCEPT ![p] = "rf_exit0"]
    /\ UNCHANGED <<calls, tmpf, target, wa>>
    /\ UNCHANGED logVars
    /\ UNCHANGED evVars

\* cli.ts:237-239  two console.log calls and process.exit(0), all synchronous:
\* the process ends with the promise still pending.
ExitSuccess(p) ==
    /\ pc[p] = "rf_exit0"
    /\ Exit(p, 0)
    /\ UNCHANGED <<calls, tmpf, target, wa>>
    /\ UNCHANGED logVars
    /\ UNCHANGED evVars

\* ------------------------------------------------------------------ paths
\* A path is [abs, segs]: whether the string starts with "/", and its segments
\* between slashes.  Segment names: an ordinary name, the dot segments, a name
\* that merely begins with two dots, a name holding a backslash followed by
\* two dots, and a name holding a NUL byte.
Segs == {"a", "..", ".", "..x", "w\\..z", "n%00"}

StartsDotDot(seg) == seg \in {"..", "..x"}
HasBackslashDotDot(seg) == seg = "w\\..z"
HasNul(seg) == seg = "n%00"

RECURSIVE Norm(_, _, _)
\* path.normalize on the segments: "." dropped, ".." removes the segment
\* before it, is dropped at the root, and stays at the front of a relative path.
Norm(segs, abs, acc) ==
    IF Len(segs) = 0 THEN acc
    ELSE LET h == Head(segs) IN
         IF h = "." THEN Norm(Tail(segs), abs, acc)
         ELSE IF h = ".."
              THEN IF Len(acc) > 0 /\ acc[Len(acc)] # ".."
                   THEN Norm(Tail(segs), abs, Front(acc))
                   ELSE IF abs THEN Norm(Tail(segs), abs, acc)
                        ELSE Norm(Tail(segs), abs, Append(acc, ".."))
              ELSE Norm(Tail(segs), abs, Append(acc, h))

normalize(path) == [abs |-> path.abs, segs |-> Norm(path.segs, path.abs, <<>>)]

\* validateRelativePath: empty, absolute, traversal (tested on the normalized
\* string with startsWith("..") / includes("/..") / includes("\\..")), NUL.
validateRelativePath(path) ==
    LET n == normalize(path).segs IN
    IF ~path.abs /\ Len(path.segs) = 0
    THEN [valid |-> FALSE, reason |-> "Path is empty"]
    ELSE IF path.abs
    THEN [valid |-> FALSE, reason |-> "Absolute paths not allowed"]
    ELSE IF \/ Len(n) > 0 /\ StartsDotDot(n[1])
            \/ \E i \in 2..Len(n) : StartsDotDot(n[i])
            \/ \E i \in 1..Len(n) : HasBackslashDotDot(n[i])
    THEN [valid |-> FALSE, reason |-> "Path traversal not allowed"]
    ELSE IF \E i \in 1..Len(path.segs) : HasNul(path.segs[i])
    THEN [valid |-> FALSE, reason |-> "Null bytes not allowed in path"]
    ELSE [valid |-> TRUE, reason |-> ""]

\* resolved.startsWith(base + "/"): base + "/" is "//" for the root, which no
\* resolved path starts with.
StartsWithBaseSlash(resolved, base) ==
    /\ Len(base) > 0
    /\ Len(resolved) > Len(base)
    /\ SubSeq(resolved, 1, Len(base)) = base

\* fsSafe.ts:61  the test deciding that the resolved path is within base.
Within(resolved, base) == StartsWithBaseSlash(resolved, base) \/ resolved = base

\* The escape test left out.
safeJoinUnchecked(base, path) ==
    [null |-> FALSE, segs |-> Norm(Norm(base.segs, TRUE, <<>>) \o path.segs, TRUE, <<>>)]
\* safeJoin(baseDir, path): resolve(base), join, resolve, then the test.
safeJoin(base, path) ==
    LET b == Norm(base.segs, TRUE, <<>>)
        resolved == Norm(b \o path.segs, TRUE, <<>>)
    IN IF Within(resolved, b)
       THEN [null |-> FALSE, segs |-> resolved]
       ELSE [null |-> TRUE, segs |-> <<>>]

RECURSIVE SeqsUpTo(_, _)
\* The sequences over S of length at most n.
SeqsUpTo(S, n) ==
    IF n = 0 THEN {<<>>}
    ELSE LET shorter == SeqsUpTo(S, n - 1) IN
         shorter \cup {Append(q, x) : q \in shorter, x \in S}

Paths == [abs : BOOLEAN, segs : SeqsUpTo(Segs, MaxSegs)]
Bases == {[abs |-> TRUE, segs |-> <<>>],
          [abs |-> TRUE, segs |-> <<"base">>],
          [abs |-> TRUE, segs |-> <<"base", "dir">>]}

\* Locals of an evidence operation not yet started; no path function applied.
NoBundle == [op |-> "none"]
NoPathCall == [fn |-> "none"]

\* ------------------------------------------------------- evidence bundle
\* The run directory and its artifacts directory.
RunDir == [abs |-> TRUE, segs |-> <<"run">>]
ArtifactsDir == [abs |-> TRUE, segs |-> <<"run", "artifacts">>]

\* Files that may lie under artifacts/, named relative to it, in the order
\* files.sort() and localeCompare give them.
FileOrder == << <<"..x">>, <<".tmp-1">>, <<"a">>, <<"d", ".tmp-1">> >>
ArtFiles == {FileOrder[i] : i \in DOMAIN FileOrder}
\* A file's bytes: which bytes (id) and how many.
Contents == [id : {1, 2}, bytes : {1}]

\* file.startsWith(".tmp-")
IsTemp(file) == file[1] = ".tmp-1"

\* SHA-256 of a file's bytes, taken as injective.
sha256(c) == <<"sha256", c.id, c.bytes>>

\* listFilesRecursive(artifactsDir): the regular files, sorted.
listFilesRecursive(art) == SelectSeq(FileOrder, LAMBDA f : f \in DOMAIN art)

\* The path under the run directory that scanArtifacts lists a file by.
RelativePath(file) == [abs |-> FALSE, segs |-> <<"artifacts">> \o file]

\* The artifact file a resolved path names, if any.
FilesAt(full, art) == {f \in DOMAIN art : ArtifactsDir.segs \o f = full}
existsSync(full, art) == FilesAt(full, art) # {}
FileAt(full, art) == art[CHOOSE f \in FilesAt(full, art) : TRUE]

\* The digest taken over the whole manifest, createdAt included.
computeManifestHashWithCreatedAt(manifest) ==
    <<"sha256", manifest.createdAt, manifest.artifacts>>
\* computeManifestHash: the digest of the manifest without createdAt.
computeManifestHash(manifest) == <<"sha256", manifest.artifacts>>

NoManifest == [exists |-> FALSE, createdAt |-> 0, artifacts |-> <<>>]
NoDigest == [exists |-> FALSE, digest |-> <<>>]

\* Manifests written by hand into a run directory: one entry with a path of
\* the validator's tests (traversal, absolute) or naming an artifact file.
CraftedPaths == {[abs |-> FALSE, segs |-> <<"..", "..", "a">>],
                 [abs |-> TRUE, segs |-> <<"a">>],
                 [abs |-> FALSE, segs |-> <<"artifacts", "a">>]}
CraftedManifests ==
    {[exists |-> TRUE, createdAt |-> 1,
      artifacts |-> << [path |-> path, sha256 |-> sha256(c), bytes |-> c.bytes] >>] :
        path \in CraftedPaths, c \in Contents}

\* The validator's verdict on the run directory as it is now: the manifest is
\* there and every entry is safe, present, of the listed size and hash.
ValidEntry(e, art) ==
    /\ validateRelativePath(e.path).valid
    /\ ~safeJoin(RunDir, e.path).null
    /\ existsSync(safeJoin(RunDir, e.path).segs, art)
    /\ FileAt(safeJoin(RunDir, e.path).segs, art).bytes = e.bytes
    /\ sha256(FileAt(safeJoin(RunDir, e.path).segs, art)) = e.sha256
ValidBundle ==
    /\ tree.manifest.exists
    /\ \A i \in DOMAIN tree.manifest.artifacts :
           ValidEntry(tree.manifest.artifacts[i], tree.art)

\* Entries of the manifest on disk whose file exists with the listed size and
\* another hash.
StaleEntries ==
    {tree.manifest.artifacts[i].path : i \in
        {j \in DOMAIN tree.manifest.artifacts :
            LET e == tree.manifest.artifacts[j]
                full == ArtifactsDir.segs \o Tail(e.path.segs)
            IN /\ ~e.path.abs
               /\ Len(e.path.segs) >= 2
               /\ e.path.segs[1] = "artifacts"
               /\ existsSync(full, tree.art)
               /\ FileAt(full, tree.art).bytes = e.bytes
               /\ sha256(FileAt(full, tree.art)) # e.sha256}}

\* Locals of a call, with what the call found on disk when it began (history).
BundleCall(op) ==
    [op |-> op, done |-> FALSE, files |-> <<>>, i |-> 1, hash |-> <<>>,
     entries |-> <<>>, manifest |-> NoManifest, digest |-> <<>>, errors |-> <<>>,
     valid |-> FALSE, fsAccess |-> {}, exit |-> -1,
     sawCreated |-> tree.created, wasValid |-> ValidBundle,
     stale |-> StaleEntries, disturbed |-> FALSE]

\* main.ts:180-194, 141-149  createEvidenceBundle, awaited by its caller:
\* scanArtifacts lists the files.
CebBegin(p) ==
    /\ pc[p] = "idle"
    /\ calls[p] < MaxOps
    /\ calls' = [calls EXCEPT ![p] = @ + 1]
    /\ eb' = [eb EXCEPT ![p] = [BundleCall("create") EXCEPT
                !.files = listFilesRecursive(tree.art)]]
    /\ pc' = [pc EXCEPT ![p] = "ceb_scan"]
    /\ UNCHANGED tree
    /\ UNCHANGED nonBundleVars

\* main.ts:151-167  one file of the loop: temp files and escaping paths are
\* skipped, the others are hashed (await hashFile).
CebHash(p) ==
    /\ pc[p] = "ceb_scan"
    /\ eb[p].i <= Len(eb[p].files)
    /\ LET file == eb[p].files[eb[p].i]
           full == safeJoin(ArtifactsDir, [abs |-> FALSE, segs |-> file])
       IN IF IsTemp(file) \/ full.null
          THEN /\ eb' = [eb EXCEPT ![p].i = @ + 1]
               /\ pc' = pc
          ELSE /\ eb' = [eb EXCEPT ![p].hash = sha256(FileAt(full.segs, tree.art))]
               /\ pc' = [pc EXCEPT ![p] = "ceb_stat"]
    /\ UNCHANGED <<calls, tree>>
    /\ UNCHANGED nonBundleVars

\* main.ts:163-169  getFileSize after the hash has arrived; the entry is pushed.
CebStat(p) ==
    /\ pc[p] = "ceb_stat"
    /\ LET file == eb[p].files[eb[p].i]
           full == safeJoin(ArtifactsDir, [abs |-> FALSE, segs |-> file])
       IN eb' = [eb EXCEPT ![p].i = @ + 1,
                           ![p].entries = Append(@,
                               [path |-> RelativePath(file),
                                sha256 |-> eb[p].hash,
                                bytes |-> FileAt(full.segs, tree.art).bytes])]
    /\ pc' = [pc EXCEPT ![p] = "ceb_scan"]
    /\ UNCHANGED <<calls, tree>>
    /\ UNCHANGED nonBundleVars

\* main.ts:173-174, 196-215  the entries sorted by path (they are listed in
\* that order), the manifest built with createdAt = now, and its digest.
CebManifest(p) ==
    /\ pc[p] = "ceb_scan"
    /\ eb[p].i > Len(eb[p].files)
    /\ \E now \in tree.now..MaxNow :
         LET manifest == [exists |-> TRUE, createdAt |-> now,
                          artifacts |-> eb[p].entries]
         IN /\ eb' = [eb EXCEPT ![p].manifest = manifest,
                                ![p].digest = computeManifestHash(manifest)]
            /\ tree' = [tree EXCEPT !.now = now]
    /\ pc' = [pc EXCEPT ![p] = "ceb_write"]
    /\ UNCHANGED calls
    /\ UNCHANGED nonBundleVars

\* main.ts:217-221, fsSafe.ts:94-103  atomicWrite(manifest.json): the temp
\* file written and renamed over the target, whatever the target holds.
CebWriteManifest(p) ==
    /\ pc[p] = "ceb_write"
    /\ tree' = [tree EXCEPT !.manifest = eb[p].manifest, !.written = TRUE]
    /\ pc' = [pc EXCEPT ![p] = "ceb_hashfile"]
    /\ UNCHANGED <<calls, eb>>
    /\ UNCHANGED nonBundleVars

\* main.ts:223-231  atomicWrite(manifest.sha256) and the return.
CebWriteDigest(p) ==
    /\ pc[p] = "ceb_hashfile"
    /\ tree' = [tree EXCEPT !.digest = [exists |-> TRUE, digest |-> eb[p].digest],
                             !.created = TRUE]
    /\ eb' = [eb EXCEPT ![p].done = TRUE]
    /\ pc' = [pc EXCEPT ![p] = "idle"]
    /\ UNCHANGED calls
    /\ UNCHANGED nonBundleVars

\* cli.ts:254-289  make-evidence: the ids read from an existing manifest and
\* createEvidenceBundle called without await; the call runs up to its first
\* await (the listing) and hands back a promise.
MakeEvidence(p) ==
    /\ pc[p] = "idle"
    /\ calls[p] < MaxOps
    /\ calls' = [calls EXCEPT ![p] = @ + 1]
    /\ eb' = [eb EXCEPT ![p] = [BundleCall("make-evidence") EXCEPT
                !.files = listFilesRecursive(tree.art)]]
    /\ pc' = [pc EXCEPT ![p] = "me_result"]
    /\ UNCHANGED tree
    /\ UNCHANGED nonBundleVars

\* cli.ts:291-304  result.manifest is undefined on a promise: reading
\* .artifacts throws, the catch exits with 1 and the pending call dies.
MakeEvidenceExit(p) ==
    /\ pc[p] = "me_result"
    /\ eb' = [eb EXCEPT ![p].exit = 1, ![p].done = TRUE]
    /\ pc' = [pc EXCEPT ![p] = "exited"]
    /\ UNCHANGED <<calls, tree>>
    /\ UNCHANGED nonBundleVars

\* validateEvidenceBundle.ts:56-95  validateEvidenceBundle, awaited by its
\* caller: the manifest looked for, read and parsed.
VebBegin(p) ==
    /\ pc[p] = "idle"
    /\ calls[p] < MaxOps
    /\ calls' = [calls EXCEPT ![p] = @ + 1]
    /\ IF ~tree.manifest.exists
       THEN /\ eb' = [eb EXCEPT ![p] = [BundleCall("validate") EXCEPT
                        !.errors = << [code |-> "MANIFEST_NOT_FOUND",
                                       path |-> [abs |-> FALSE, segs |-> <<>>]] >>,
                        !.done = TRUE]]
            /\ pc' = pc
       ELSE /\ eb' = [eb EXCEPT ![p] = [BundleCall("validate") EXCEPT
                        !.manifest = tree.manifest]]
            /\ pc' = [pc EXCEPT ![p] = "veb_entry"]
    /\ UNCHANGED tree
    /\ UNCHANGED nonBundleVars

\* The validator goes on to join the path after reporting it unsafe.
AfterUnsafeFallThrough == "veb_join"
\* validateEvidenceBundle.ts:109  continue
AfterUnsafePath == "veb_entry"

\* validateEvidenceBundle.ts:99-111  the path of the next entry checked.
VebPath(p) ==
    /\ pc[p] = "veb_entry"
    /\ eb[p].i <= Len(eb[p].manifest.artifacts)
    /\ LET e == eb[p].manifest.artifacts[eb[p].i] IN
       IF ~validateRelativePath(e.path).valid
       THEN /\ eb' = [eb EXCEPT
                  ![p].errors = Append(@, [code |-> "UNSAFE_PATH", path |-> e.path]),
                  ![p].i = IF AfterUnsafePath = "veb_entry" THEN @ + 1 ELSE @]
            /\ pc' = [pc EXCEPT ![p] = AfterUnsafePath]
       ELSE /\ eb' = eb
            /\ pc' = [pc EXCEPT ![p] = "veb_join"]
    /\ UNCHANGED <<calls, tree>>
    /\ UNCHANGED nonBundleVars

\* validateEvidenceBundle.ts:113-122  safeJoin(runDir, artifact.path)
VebJoin(p) ==
    /\ pc[p] = "veb_join"
    /\ LET e == eb[p].manifest.artifacts[eb[p].i] IN
       IF safeJoin(RunDir, e.path).null
       THEN /\ eb' = [eb EXCEPT
                  ![p].errors = Append(@, [code |-> "PATH_ESCAPE", path |-> e.path]),
                  ![p].i = @ + 1]
            /\ pc' = [pc EXCEPT ![p] = "veb_entry"]
       ELSE /\ eb' = eb
            /\ pc' = [pc EXCEPT ![p] = "veb_exists"]
    /\ UNCHANGED <<calls, tree>>
    /\ UNCHANGED nonBundleVars

\* validateEvidenceBundle.ts:124-132  existsSync(fullPath)
VebExists(p) ==
    /\ pc[p] = "veb_exists"
    /\ LET e == eb[p].manifest.artifacts[eb[p].i]
           full == safeJoin(RunDir, e.path).segs
       IN IF ~existsSync(full, tree.art)
          THEN /\ eb' = [eb EXCEPT
                     ![p].errors = Append(@, [code |-> "ARTIFACT_NOT_FOUND",
                                              path |-> e.path]),
                     ![p].fsAccess = @ \cup {e.path},
                     ![p].i = @ + 1]
               /\ pc' = [pc EXCEPT ![p] = "veb_entry"]
          ELSE /\ eb' = [eb EXCEPT ![p].fsAccess = @ \cup {e.path}]
               /\ pc' = [pc EXCEPT ![p] = "veb_stat"]
    /\ UNCHANGED <<calls, tree>>
    /\ UNCHANGED nonBundleVars

\* validateEvidenceBundle.ts:134-142  getFileSize(fullPath); a mismatch is
\* reported and the entry is still hashed.
VebStat(p) ==
    /\ pc[p] = "veb_stat"
    /\ LET e == eb[p].manifest.artifacts[eb[p].i]
           full == safeJoin(RunDir, e.path).segs
       IN eb' = [eb EXCEPT
              ![p].errors = IF FileAt(full, tree.art).bytes # e.bytes
                            THEN Append(@, [code |-> "SIZE_MISMATCH", path |-> e.path])
                            ELSE @]
    /\ pc' = [pc EXCEPT ![p] = "veb_hash"]
    /\ UNCHANGED <<calls, tree>>
    /\ UNCHANGED nonBundleVars

\* validateEvidenceBundle.ts:144-152  await hashFileStream(fullPath)
VebHash(p) ==
    /\ pc[p] = "veb_hash"
    /\ LET e == eb[p].manifest.artifacts[eb[p].i]
           full == safeJoin(RunDir, e.path).segs
       IN eb' = [eb EXCEPT
              ![p].errors = IF sha256(FileAt(full, tree.art)) # e.sha256
                            THEN Append(@, [code |-> "HASH_MISMATCH", path |-> e.path])
                            ELSE @,
              ![p].i = @ + 1]
    /\ pc' = [pc EXCEPT ![p] = "veb_entry"]
    /\ UNCHANGED <<calls, tree>>
    /\ UNCHANGED nonBundleVars

\* validateEvidenceBundle.ts:155-159  valid: errors.length === 0
VebDone(p) ==
    /\ pc[p] = "veb_entry"
    /\ eb[p].i > Len(eb[p].manifest.artifacts)
    /\ eb' = [eb EXCEPT ![p].valid = (eb[p].errors = <<>>), ![p].done = TRUE]
    /\ pc' = [pc EXCEPT ![p] = "idle"]
    /\ UNCHANGED <<calls, tree>>
    /\ UNCHANGED nonBundleVars

\* What the command holds after calling the validator without await.
Promise == [settled |-> FALSE, valid |-> FALSE]
\* result.valid read from it: undefined on a promise.
Truthy(result) == result.settled /\ result.valid

\* cli.ts:312-320  validate-evidence: validateEvidenceBundle (or
\* validateManifestFile) called without await; the call hands back a promise.
ValidateEvidence(p) ==
    /\ pc[p] = "idle"
    /\ calls[p] < MaxOps
    /\ calls' = [calls EXCEPT ![p] = @ + 1]
    /\ eb' = [eb EXCEPT ![p] = BundleCall("validate-evidence")]
    /\ pc' = [pc EXCEPT ![p] = "ve_result"]
    /\ UNCHANGED tree
    /\ UNCHANGED nonBundleVars

\* cli.ts:322-344  if (result.valid) exit 0; otherwise the errors are listed
\* (result.errors of a promise is not iterable: the catch) and exit 1.
ValidateEvidenceExit(p) ==
    /\ pc[p] = "ve_result"
    /\ eb' = [eb EXCEPT ![p].exit = IF Truthy(Promise) THEN 0 ELSE 1,
                        ![p].done = TRUE]
    /\ pc' = [pc EXCEPT ![p] = "exited"]
    /\ UNCHANGED <<calls, tree>>
    /\ UNCHANGED nonBundleVars

\* Somebody changes a byte of an artifact file, its size unchanged; a
\* validation under way is disturbed.
Tamper(f) ==
    /\ f \in DOMAIN tree.art
    /\ tree.tampers < MaxTampers
    /\ tree' = [tree EXCEPT !.art[f].id = 3 - @, !.tampers = @ + 1]
    /\ eb' = [p \in Procs |->
                 IF pc[p] \in {"idle", "exited"} THEN eb[p]
                 ELSE [eb[p] EXCEPT !.disturbed = TRUE]]
    /\ UNCHANGED <<pc, calls>>
    /\ UNCHANGED nonBundleVars

\* Lengths of canonicalJson(inputs) in UTF-16 code units (what .length
\* counts), around the caps of the configurations; the string has that many
\* bytes in UTF-8, or one more when one of its characters is not ASCII.
InputsSizes ==
    [units : {StrictConfig.maxBytes, StrictConfig.maxBytes + 1,
              DefaultConfig.maxBytes, DefaultConfig.maxBytes + 1},
     extra : {0, 1}]

\* Normalized intents and resolved configurations, each field varying on its
\* own (expiresAt 0: no expiresAt).
PolicyIntents ==
    {[GoodIntent EXCEPT !.jobType = j, !.requester = r, !.expiresAt = e,
                        !.inputsLen = n.units, !.inputsBytes = n.units + n.extra] :
        j \in {"SAFE_REPORT", "UNKNOWN_JOB"}, r \in {"alice", "mallory"},
        e \in 0..MaxNow, n \in InputsSizes}
PolicyConfigs ==
    {[DefaultConfig EXCEPT !.POLICY_JOBTYPE_ALLOWLIST = a, !.requesterAllowlistSet = s,
                           !.POLICY_REQUESTER_ALLOWLIST = l, !.maxBytes = m] :
        a \in {DefaultConfig.POLICY_JOBTYPE_ALLOWLIST, StrictConfig.POLICY_JOBTYPE_ALLOWLIST},
        s \in BOOLEAN, l \in {{}, StrictConfig.POLICY_REQUESTER_ALLOWLIST},
        m \in {DefaultConfig.maxBytes, StrictConfig.maxBytes}}

\* A caller applies evaluatePolicy at the current time.
ApplyEvaluatePolicy ==
    /\ pf.fn = "input"
    /\ \E now \in 1..MaxNow :
         pf' = [pf EXCEPT !.fn = "evaluatePolicy", !.now = now,
                          !.result = evaluatePolicy(pf.intent, pf.config, now)]
    /\ UNCHANGED <<pc, calls, tmpf, target, wa, run, tree, eb>>
    /\ UNCHANGED logVars

\* ------------------------------------------------------------ canonicalJson
\* A JSON value: a primitive (a token), or an object, its entries in the
\* order they were inserted.
Primitive(a) == [kind |-> "atom", a |-> a, pairs |-> <<>>]
Object(pairs) == [kind |-> "obj", a |-> "", pairs |-> pairs]

\* Keys in the order Array.prototype.sort() gives them.
KeyOrder == <<"a", "b">>
Keys == {KeyOrder[i] : i \in DOMAIN KeyOrder}

\* The entry lists over a set of values: no key twice, any insertion order.
EntryLists(values) ==
    {<<>>}
    \cup {<<[k |-> k, v |-> v]>> : k \in Keys, v \in values}
    \cup {e \in {<<[k |-> k1, v |-> v1], [k |-> k2, v |-> v2]>> :
                      k1 \in Keys, k2 \in Keys, v1 \in values, v2 \in values} :
              e[1].k # e[2].k}

Primitives == {Primitive(a) : a \in {"1", "2"}}
InnerObjects == {Object(pairs) : pairs \in EntryLists(Primitives)}
JsonObjects == {Object(pairs) : pairs \in EntryLists(Primitives \cup InnerObjects)}

KeysOf(obj) == {obj.pairs[i].k : i \in DOMAIN obj.pairs}
ValueAt(obj, k) == obj.pairs[CHOOSE i \in DOMAIN obj.pairs : obj.pairs[i].k = k].v

\* The keys as the object lists them.
InsertionKeys(obj) == [i \in DOMAIN obj.pairs |-> obj.pairs[i].k]
\* plan.test.ts:176  Object.keys(value).sort()
SortedKeys(obj) == SelectSeq(KeyOrder, LAMBDA k : k \in KeysOf(obj))

RECURSIVE Stringify(_, _)
RECURSIVE canonicalJson(_)
\* JSON.stringify of the entries at the given keys, already re-inserted in
\* that order, each value canonicalized.
Stringify(obj, keys) ==
    IF Len(keys) = 0 THEN <<>>
    ELSE <<Head(keys), ":">> \o canonicalJson(ValueAt(obj, Head(keys)))
             \o (IF Len(keys) > 1 THEN <<",">> ELSE <<>>)
             \o Stringify(obj, Tail(keys))

\* canonicalJson: JSON.stringify(sortObjectKeys(value)), the string as the
\* sequence of its tokens.
canonicalJson(value) ==
    IF value.kind = "atom" THEN <<value.a>>
    ELSE <<"{">> \o Stringify(value, SortedKeys(value)) \o <<"}">>

\* A caller serializes two values.
ApplyCanonicalJson ==
    /\ pf.fn = "input"
    /\ pf' = [pf EXCEPT !.fn = "canonicalJson",
                        !.result = [s1 |-> canonicalJson(pf.value),
                                    s2 |-> canonicalJson(pf.other)]]
    /\ UNCHANGED <<pc, calls, tmpf, target, wa, run, tree, eb>>
    /\ UNCHANGED logVars

\* ---------------------------------------------------------- normalizeIntent
\* constraints ?? {} in canonical JSON: an absent mapping counts as empty.
CanonicalConstraints(constraints) ==
    IF constraints \in {"absent", "empty"} THEN "{}" ELSE constraints

\* The hash taking createdAt in as well.
computeIntentIdWithCreatedAt(intent) ==
    <<"sha256", "intent", intent.intentVersion, intent.requester, intent.jobType,
      canonicalJson(intent.inputs), CanonicalConstraints(intent.constraints),
      intent.createdAt>>
\* computeIntentId: sha256 of the parts joined by ":", the hash standing as
\* the tuple of what it digests (createdAt, expiresAt are not among them).
computeIntentId(intent) ==
    <<"sha256", "intent", intent.intentVersion, intent.requester, intent.jobType,
      canonicalJson(intent.inputs), CanonicalConstraints(intent.constraints)>>

\* inputs of an intent: one mapping with its keys in two orders, and another.
IntentInputs ==
    {Object(<<[k |-> "a", v |-> Primitive("1")], [k |-> "b", v |-> Primitive("2")]>>),
     Object(<<[k |-> "b", v |-> Primitive("2")], [k |-> "a", v |-> Primitive("1")]>>),
     Object(<<[k |-> "a", v |-> Primitive("2")]>>)}

\* Values handed to normalizeIntent: intentId absent (<<>>), one chosen by
\* the requester, or the computed one; a version the schema rejects; a
\* top-level key the schema does not define (extraKey).
RawIntents ==
    LET fields == [intentVersion : {"0.1.0", "9.9.9"}, requester : {"alice", "mallory"},
                   jobType : {"SAFE_REPORT"}, inputs : IntentInputs,
                   constraints : {"absent", "empty", "{k:1}"},
                   createdAt : 1..MaxNow, expiresAt : {0, MaxNow},
                   meta : {"absent", "{m:1}"},
                   acceptanceCriteria : {"absent", "[c]"},
                   extraKey : BOOLEAN]
    IN UNION {{[intentVersion |-> f.intentVersion, requester |-> f.requester,
                jobType |-> f.jobType, inputs |-> f.inputs,
                constraints |-> f.constraints, createdAt |-> f.createdAt,
                expiresAt |-> f.expiresAt, meta |-> f.meta,
                acceptanceCriteria |-> f.acceptanceCriteria,
                extraKey |-> f.extraKey, intentId |-> id] :
                    id \in {<<>>, <<"custom-id-123">>, computeIntentId(f)}} :
              f \in fields}

\* parseIntent: IntentV0Schema accepts the value.  The schema is a plain
\* z.object: a key it does not define is no error, it is dropped from the
\* parsed intent.
parseIntent(value) == value.intentVersion = "0.1.0"
Parsed(value) == [value EXCEPT !.extraKey = FALSE]

\* The intentId computed whatever the value carried.
normalizeIntentRecompute(value) ==
    IF ~parseIntent(value)
    THEN [threw |-> TRUE, intent |-> value]
    ELSE [threw |-> FALSE,
          intent |-> [Parsed(value) EXCEPT !.intentId = computeIntentId(value)]]
\* normalizeIntent: intent.intentId ?? computeIntentId(intent)
normalizeIntent(value) ==
    IF ~parseIntent(value)
    THEN [threw |-> TRUE, intent |-> value]
    ELSE [threw |-> FALSE,
          intent |-> [Parsed(value) EXCEPT !.intentId =
                         IF value.intentId # <<>> THEN value.intentId
                         ELSE computeIntentId(value)]]

\* The intents that differ from an intent in createdAt, expiresAt, meta,
\* acceptanceCriteria and requester, or in some of them.
Variations(intent) ==
    {[intent EXCEPT !.createdAt = c, !.expiresAt = e, !.meta = m,
                    !.acceptanceCriteria = a, !.requester = r] :
        c \in 1..MaxNow, e \in {0, MaxNow}, m \in {"absent", "{m:1}"},
        a \in {"absent", "[c]"}, r \in {"alice", "mallory"}}

\* A caller computes the intentId of two intents.
ApplyComputeIntentId ==
    /\ pf.fn = "input"
    /\ pf' = [pf EXCEPT !.fn = "computeIntentId",
                        !.result = [id1 |-> computeIntentId(pf.value),
                                    id2 |-> computeIntentId(pf.other)]]
    /\ UNCHANGED <<pc, calls, tmpf, target, wa, run, tree, eb>>
    /\ UNCHANGED logVars

\* A caller applies normalizeIntent to a value.
ApplyNormalizeIntent ==
    /\ pf.fn = "input"
    /\ pf' = [pf EXCEPT !.fn = "normalizeIntent", !.result = normalizeIntent(pf.value)]
    /\ UNCHANGED <<pc, calls, tmpf, target, wa, run, tree, eb>>
    /\ UNCHANGED logVars

\* A caller applies safeJoin / validateRelativePath to its arguments.
ApplySafeJoin ==
    /\ pf.fn = "input"
    /\ pf' = [pf EXCEPT !.fn = "safeJoin", !.result = safeJoin(pf.base, pf.path)]
    /\ UNCHANGED <<pc, calls, tmpf, target, wa, run, tree, eb>>
    /\ UNCHANGED logVars

ApplyValidateRelativePath ==
    /\ pf.fn = "input"
    /\ pf' = [pf EXCEPT !.fn = "validateRelativePath",
                        !.result = validateRelativePath(pf.path)]
    /\ UNCHANGED <<pc, calls, tmpf, target, wa, run, tree, eb>>
    /\ UNCHANGED logVars

\* --------------------------------------------------------- specifications

StoreInit ==
    /\ pc = [p \in Procs |-> "idle"]
    /\ calls = [p \in Procs |-> 0]
    /\ logFile = NoFile
    /\ log0 = NoFile
    /\ inoNext = 1
    /\ lock = [t \in {"file", "dir"} |-> {}]
    /\ aj = [p \in Procs |-> NoCall]
    /\ tmpf = <<>>
    /\ returned = {}
    /\ thrown = {}
    /\ \E old \in BOOLEAN :
         target = [t \in TargetNames |->
                     IF old THEN [exists |-> TRUE, data |-> FileData(OldContent)]
                     ELSE [exists |-> FALSE, data |-> <<>>]]
    /\ wa = [p \in Procs |-> NoWrite]
    /\ run = [p \in Procs |-> NoRun]
    /\ tree = <<>>
    /\ eb = [p \in Procs |-> NoBundle]
    /\ pf = NoPathCall

StoreNext == \E p \in Procs : StoreCall(p) \/ StoreDone(p) \/ WriteNext(p)

LogInit ==
    /\ pc = [p \in Procs |-> "idle"]
    /\ calls = [p \in Procs |-> 0]
    /\ logFile \in {NoFile, [exists |-> TRUE, data |-> Line(OldRecord), ino |-> 1]}
    /\ log0 = logFile
    /\ inoNext = 2
    /\ lock = [t \in {"file", "dir"} |-> {}]
    /\ aj = [p \in Procs |-> NoCall]
    /\ tmpf = <<>>
    /\ returned = {}
    /\ thrown = {}
    /\ target = [t \in TargetNames |-> [exists |-> FALSE, data |-> <<>>]]
    /\ wa = [p \in Procs |-> NoWrite]
    /\ run = [p \in Procs |-> NoRun]
    /\ tree = <<>>
    /\ eb = [p \in Procs |-> NoBundle]
    /\ pf = NoPathCall

AppendNext(p) ==
    \/ AjLock(p) \/ AjCheck(p) \/ AjTmpOpen(p) \/ AjTmpWrite(p) \/ AjRename(p)
    \/ AjNewOpen(p) \/ AjNewWrite1(p) \/ AjNewWrite2(p) \/ AjUnlock(p)
    \/ AjCrash(p)

LogNext == \E p \in Procs : LogCall(p) \/ LogDone(p) \/ AppendNext(p)

vars == <<pc, calls, logFile, lock, aj, tmpf, inoNext, log0, returned, thrown,
          target, wa, run, tree, eb, pf>>

SpecLog == LogInit /\ [][LogNext]_vars

SpecStore == StoreInit /\ [][StoreNext]_vars

\* A run directory with any artifact files and no manifest or one written by
\* hand; the evidence operations are called on it.
BundleInit ==
    /\ pc = [p \in Procs |-> "idle"]
    /\ calls = [p \in Procs |-> 0]
    /\ logFile = NoFile
    /\ log0 = NoFile
    /\ inoNext = 1
    /\ lock = [t \in {"file", "dir"} |-> {}]
    /\ aj = [p \in Procs |-> NoCall]
    /\ tmpf = <<>>
    /\ returned = {}
    /\ thrown = {}
    /\ target = [t \in TargetNames |-> [exists |-> FALSE, data |-> <<>>]]
    /\ wa = [p \in Procs |-> NoWrite]
    /\ run = [p \in Procs |-> NoRun]
    /\ pf = NoPathCall
    /\ eb = [p \in Procs |-> NoBundle]
    /\ \E S \in SUBSET ArtFiles :
         \E art \in [S -> Contents], manifest \in {NoManifest} \cup CraftedManifests :
           tree = [art |-> art, manifest |-> manifest, digest |-> NoDigest,
                   written |-> FALSE, created |-> FALSE, now |-> 1, tampers |-> 0]

BundleNext ==
    \/ \E p \in Procs :
         \/ CebBegin(p) \/ CebHash(p) \/ CebStat(p) \/ CebManifest(p)
         \/ CebWriteManifest(p) \/ CebWriteDigest(p)
         \/ MakeEvidence(p) \/ MakeEvidenceExit(p)
         \/ VebBegin(p) \/ VebPath(p) \/ VebJoin(p) \/ VebExists(p)
         \/ VebStat(p) \/ VebHash(p) \/ VebDone(p)
         \/ ValidateEvidence(p) \/ ValidateEvidenceExit(p)
    \/ \E f \in ArtFiles : Tamper(f)

SpecBundle == BundleInit /\ [][BundleNext]_vars

\* evaluatePolicy applied to every intent and configuration within the bounds.
PolicyInit ==
    /\ pc = [p \in Procs |-> "idle"]
    /\ calls = [p \in Procs |-> 0]
    /\ logFile = NoFile
    /\ log0 = NoFile
    /\ inoNext = 1
    /\ lock = [t \in {"file", "dir"} |-> {}]
    /\ aj = [p \in Procs |-> NoCall]
    /\ tmpf = <<>>
    /\ returned = {}
    /\ thrown = {}
    /\ target = [t \in TargetNames |-> [exists |-> FALSE, data |-> <<>>]]
    /\ wa = [p \in Procs |-> NoWrite]
    /\ run = [p \in Procs |-> NoRun]
    /\ tree = <<>>
    /\ eb = [p \in Procs |-> NoBundle]
    /\ \E intent \in PolicyIntents, config \in PolicyConfigs :
         pf = [fn |-> "input", intent |-> intent, config |-> config, now |-> 0,
               result |-> [allowed |-> TRUE, reasons |-> <<>>]]

PolicyNext == ApplyEvaluatePolicy

SpecPolicy == PolicyInit /\ [][PolicyNext]_vars

\* normalizeIntent applied to every value within the bounds.
NormalizeInit ==
    /\ pc = [p \in Procs |-> "idle"]
    /\ calls = [p \in Procs |-> 0]
    /\ logFile = NoFile
    /\ log0 = NoFile
    /\ inoNext = 1
    /\ lock = [t \in {"file", "dir"} |-> {}]
    /\ aj = [p \in Procs |-> NoCall]
    /\ tmpf = <<>>
    /\ returned = {}
    /\ thrown = {}
    /\ target = [t \in TargetNames |-> [exists |-> FALSE, data |-> <<>>]]
    /\ wa = [p \in Procs |-> NoWrite]
    /\ run = [p \in Procs |-> NoRun]
    /\ tree = <<>>
    /\ eb = [p \in Procs |-> NoBundle]
    /\ \E value \in RawIntents :
         pf = [fn |-> "input", value |-> value,
               result |-> [threw |-> FALSE, intent |-> value]]

NormalizeNext == ApplyNormalizeIntent

SpecNormalize == NormalizeInit /\ [][NormalizeNext]_vars

\* canonicalJson applied to every pair of objects within the bounds.
JsonInit ==
    /\ pc = [p \in Procs |-> "idle"]
    /\ calls = [p \in Procs |-> 0]
    /\ logFile = NoFile
    /\ log0 = NoFile
    /\ inoNext = 1
    /\ lock = [t \in {"file", "dir"} |-> {}]
    /\ aj = [p \in Procs |-> NoCall]
    /\ tmpf = <<>>
    /\ returned = {}
    /\ thrown = {}
    /\ target = [t \in TargetNames |-> [exists |-> FALSE, data |-> <<>>]]
    /\ wa = [p \in Procs |-> NoWrite]
    /\ run = [p \in Procs |-> NoRun]
    /\ tree = <<>>
    /\ eb = [p \in Procs |-> NoBundle]
    /\ \E value \in JsonObjects, other \in JsonObjects :
         pf = [fn |-> "input", value |-> value, other |-> other,
               result |-> [s1 |-> <<>>, s2 |-> <<>>]]

JsonNext == ApplyCanonicalJson

SpecJson == JsonInit /\ [][JsonNext]_vars

\* computeIntentId applied to every valid intent and its variations.
IntentIdInit ==
    /\ pc = [p \in Procs |-> "idle"]
    /\ calls = [p \in Procs |-> 0]
    /\ logFile = NoFile
    /\ log0 = NoFile
    /\ inoNext = 1
    /\ lock = [t \in {"file", "dir"} |-> {}]
    /\ aj = [p \in Procs |-> NoCall]
    /\ tmpf = <<>>
    /\ returned = {}
    /\ thrown = {}
    /\ target = [t \in TargetNames |-> [exists |-> FALSE, data |-> <<>>]]
    /\ wa = [p \in Procs |-> NoWrite]
    /\ run = [p \in Procs |-> NoRun]
    /\ tree = <<>>
    /\ eb = [p \in Procs |-> NoBundle]
    /\ \E value \in {v \in RawIntents : parseIntent(v)} :
         \E other \in Variations(value) :
           pf = [fn |-> "input", value |-> value, other |-> other,
                 result |-> [id1 |-> <<>>, id2 |-> <<>>]]

IntentIdNext == ApplyComputeIntentId

SpecIntentId == IntentIdInit /\ [][IntentIdNext]_vars

\* The path functions applied to every base and path within the bounds.
PathInit ==
    /\ pc = [p \in Procs |-> "idle"]
    /\ calls = [p \in Procs |-> 0]
    /\ logFile = NoFile
    /\ log0 = NoFile
    /\ inoNext = 1
    /\ lock = [t \in {"file", "dir"} |-> {}]
    /\ aj = [p \in Procs |-> NoCall]
    /\ tmpf = <<>>
    /\ returned = {}
    /\ thrown = {}
    /\ target = [t \in TargetNames |-> [exists |-> FALSE, data |-> <<>>]]
    /\ wa = [p \in Procs |-> NoWrite]
    /\ run = [p \in Procs |-> NoRun]
    /\ tree = <<>>
    /\ eb = [p \in Procs |-> NoBundle]
    /\ \E base \in Bases, path \in Paths :
         pf = [fn |-> "input", base |-> base, path |-> path,
               result |-> [null |-> TRUE, segs |-> <<>>]]

PathNext == ApplySafeJoin \/ ApplyValidateRelativePath

SpecPath == PathInit /\ [][PathNext]_vars

\* run-fixture invocations, one per process, on one data directory.
Init ==
    /\ pc = [p \in Procs |-> "idle"]
    /\ calls = [p \in Procs |-> 0]
    /\ logFile \in {NoFile, [exists |-> TRUE, data |-> Line(OldRecord), ino |-> 1]}
    /\ log0 = logFile
    /\ inoNext = 2
    /\ lock = [t \in {"file", "dir"} |-> {}]
    /\ aj = [p \in Procs |-> NoCall]
    /\ tmpf = <<>>
    /\ returned = {}
    /\ thrown = {}
    /\ target = [t \in TargetNames |-> [exists |-> FALSE, data |-> <<>>]]
    /\ wa = [p \in Procs |-> NoWrite]
    /\ run = [p \in Procs |-> NoRun]
    /\ tree = <<>>
    /\ eb = [p \in Procs |-> NoBundle]
    /\ pf = NoPathCall

RunNext(p) ==
    \/ RunFixture(p) \/ LoadConfig(p) \/ LoadIntent(p) \/ EvaluatePolicy(p)
    \/ Gate(p) \/ RefusalExit(p) \/ RunnerRun(p) \/ SafeReportRun(p)
    \/ SafeReportDone(p) \/ AfterRun(p) \/ ExitFailure(p)
    \/ CreateEvidenceBundleCall(p) \/ ExitSuccess(p)

BatchNext(p) ==
    \/ WaOpen(p) \/ WaWrite(p) \/ WaRename(p) \/ WaCleanup(p) \/ StoreCrash(p)

Next == \E p \in Procs : RunNext(p) \/ AppendNext(p) \/ BatchNext(p)

Spec == Init /\ [][Next]_vars

\* ------------------------------------------------------------------ claims
NoCallRunning == \A p \in Procs : pc[p] = "idle"

\* C1: once all of N concurrent appendJsonl calls have returned, the file
\* holds exactly N more well-formed lines than before, one per call, none
\* interleaved with another.
C1_AppendAtomicity ==
    (NoCallRunning /\ thrown = {})
        => /\ logFile.exists = (log0.exists \/ returned # {})
           /\ WholeLines(logFile.data)
           /\ Len(RecordsOf(logFile.data)) = Len(RecordsOf(log0.data)) + Cardinality(returned)
           /\ \A r \in returned :
                Cardinality({i \in DOMAIN RecordsOf(logFile.data) :
                               RecordsOf(logFile.data)[i] = r}) = 1

\* An appendJsonl call of p was cut short by a crash or an I/O error.
Interrupted(p) ==
    \/ pc[p] = "crashed"
    \/ pc[p] = "aj_threw" /\ aj[p].err = "io"

\* p's call is the only one issued so far.
OnlyCaller(p) == calls[p] = 1 /\ \A q \in Procs \ {p} : calls[q] = 0

\* C2: after an interrupted appendJsonl call the log file holds its previous
\* content, or that content followed by the complete new line; never a
\* truncated or partial line, also when the call creates the file.
C2_InterruptedAppendIntact ==
    \A p \in Procs :
        (Interrupted(p) /\ OnlyCaller(p))
            => \/ logFile.data = log0.data
               \/ logFile.data = log0.data \o Line(aj[p].rec)

\* The data is the complete content of one write.
Complete(data) ==
    /\ Len(data) = 2
    /\ data[1][2] = 1
    /\ data[2][2] = 2
    /\ data[1][1] = data[2][1]

\* C3: at every instant, also during and after interrupted or concurrent
\* atomicWrite / writeArtifact / writeArtifacts calls, a file visible at a
\* target name holds the complete content of one write.
C3_NoPartialTarget ==
    \A t \in TargetNames : target[t].exists => Complete(target[t].data)

\* A writer died leaving a partial temp file beside a target that another
\* writer has replaced.
C3_Witness ==
    \E p \in Procs, q \in Procs :
        /\ p # q
        /\ pc[p] = "crashed"
        /\ wa[p].op # "none"
        /\ \E id \in DOMAIN tmpf : id[1] = p /\ ~Complete(tmpf[id])
        /\ \E i \in DOMAIN wa[p].batch :
             /\ target[wa[p].batch[i].path].exists
             /\ target[wa[p].batch[i].path].data = FileData([by |-> q, n |-> 1])

BatchPaths(p) == {wa[p].batch[i].path : i \in DOMAIN wa[p].batch}

\* The temp files of the running call of p that are still on disk.
OwnTemps(p) == {id \in DOMAIN tmpf : id[1] = p /\ id[2] = calls[p] /\ id[3] >= 1}

\* C9: when a phase-1 temp write of writeArtifacts fails, the call fails, every
\* temp file the call had created is unlinked, and no target of the batch has
\* been created or replaced by it.
C9_Phase1FailureCleansUp ==
    \A p \in Procs :
        (wa[p].op = "writeArtifacts" /\ wa[p].failPhase = 1)
            => /\ pc[p] \notin {"wa_open", "wa_write", "wa_rename", "wa_returned"}
               /\ wa[p].committed = {}
               /\ pc[p] = "wa_threw" => OwnTemps(p) = {}

\* C10: after writeArtifacts has returned or thrown, either every target of
\* the batch holds its new content or none has been created or replaced.
C10_AllOrNothing ==
    \A p \in Procs :
        (wa[p].op = "writeArtifacts" /\ pc[p] \in {"wa_returned", "wa_threw"})
            => wa[p].committed = {} \/ wa[p].committed = BatchPaths(p)

\* The record has been persisted: its complete line is in the log file.
Persisted(rec) ==
    \E i \in 1..(Len(logFile.data) - 1) :
        logFile.data[i] = Line(rec)[1] /\ logFile.data[i + 1] = Line(rec)[2]

\* C4: when a run-fixture process whose intent was refused has exited with
\* status 2, the refusal record with all the reasons of the decision is in the
\* refusals log.
C4_RefusalPersisted ==
    \A p \in Procs :
        (pc[p] = "exited" /\ run[p].exit = 2)
            => Persisted(createRefusalRecord(p, run[p].intent, run[p].runId,
                                             run[p].policy.reasons))

\* C5: for an intent the policy gate refused, the runner is never invoked and
\* the process writes no artifact, no temp file and no manifest under the run
\* directory; a run directory no runner was invoked on stays empty.
C5_RefusedRunsNothing ==
    /\ \A p \in Procs :
         ~run[p].policy.allowed
             => /\ ~run[p].invoked
                /\ wa[p] = NoWrite
                /\ OwnTemps(p) = {}
                /\ run[p].result.status = "NONE"
                /\ pc[p] \notin InWrite \cup {"rf_runner", "sr_run", "rf_result", "rf_evidence"}
    /\ (\A p \in Procs : ~run[p].everInvoked)
           => /\ \A t \in TargetNames : ~target[t].exists
              /\ \A id \in DOMAIN tmpf : id[3] = 0

\* A refusal with three reasons has been recorded and the process has exited
\* with 2, while another process has written artifacts to the run directory.
C5_Witness ==
    \E p \in Procs :
        /\ pc[p] = "exited"
        /\ run[p].exit = 2
        /\ Len(run[p].policy.reasons) >= 3
        /\ Persisted(aj[p].rec)
        /\ \E t \in ArtifactNames : target[t].exists

\* The position of a step in the order of a run.
StepRank(step) ==
    CASE step = "validate" -> 1
      [] step = "policy" -> 2
      [] step = "execute" -> 3
      [] step = "artifacts" -> 4
      [] step = "manifest" -> 5
      [] step = "append" -> 6

Steps(p) == {run[p].trace[i] : i \in DOMAIN run[p].trace}

ManifestNotFound == ~target["manifest.json"].exists

\* C7: when run-fixture without --dry-run on an allowed intent has exited with
\* status 0, manifest.json and manifest.sha256 exist in the run directory and
\* its validation does not fail.
C7_ExitZeroHasEvidence ==
    \A p \in Procs :
        (pc[p] = "exited" /\ run[p].exit = 0 /\ ~run[p].dryRun)
            => /\ target["manifest.json"].exists
               /\ target["manifest.sha256"].exists
               /\ ~ManifestNotFound

\* C8: when the runner has returned FAILED and the process has exited, no
\* artifact of the run was committed and a manifest recording the failure has
\* been written.
C8_FailedRunHasManifest ==
    \A p \in Procs :
        (pc[p] = "exited" /\ run[p].result.status = "FAILED")
            => /\ wa[p].committed = {}
               /\ target["manifest.json"].exists
               /\ target["manifest.sha256"].exists

\* The file at target name t carries (all or part of) content c.
TouchedBy(t, c) ==
    /\ target[t].exists
    /\ Len(target[t].data) >= 1
    /\ target[t].data[1][1] = c

\* The call of p ended, by an error or by the death of the process, before
\* its first rename.
InterruptedBeforeRename(p) ==
    /\ wa[p].op # "none"
    /\ \/ pc[p] = "crashed" /\ wa[p].results = <<>>
       \/ wa[p].failPhase = 1

Descendant(q, base) == Len(q) >= Len(base) /\ SubSeq(q, 1, Len(base)) = base

\* C19 (as claimed): safeJoin(base, p) is null or a strict descendant of base.
C19_StrictDescendantOrNull ==
    pf.fn = "safeJoin"
        => \/ pf.result.null
           \/ /\ Descendant(pf.result.segs, pf.base.segs)
              /\ pf.result.segs # pf.base.segs

\* C19 (amended): safeJoin(base, p) is null, base itself, or a descendant of
\* base; it is never a path outside base.
C19_WithinBaseOrNull ==
    pf.fn = "safeJoin"
        => \/ pf.result.null
           \/ Descendant(pf.result.segs, pf.base.segs)

\* A path that climbs out of base and back in is joined to a descendant, and
\* one that climbs out and stays out gives null.
C19_Witness ==
    /\ pf.fn = "safeJoin"
    /\ pf.base.segs = <<"base", "dir">>
    /\ \/ pf.path.segs = <<"..", "..", "a">> /\ pf.result.null
       \/ pf.path.segs = <<"..", "dir", "a">> /\ ~pf.result.null

\* A validation by process p that began after a createEvidenceBundle call had
\* completed, has returned, and ran with no artifact changed meanwhile.
ValidatedAfterCreate(p) ==
    /\ eb[p].op = "validate"
    /\ eb[p].done
    /\ eb[p].sawCreated
    /\ ~eb[p].disturbed

HasError(p, code, path) ==
    \E i \in DOMAIN eb[p].errors : eb[p].errors[i] = [code |-> code, path |-> path]

\* C12: for any run directory, a validation made right after
\* createEvidenceBundle has completed, with no file changed since the bundle
\* was made, returns valid.
C12_CreateThenValidate ==
    \A p \in Procs :
        (ValidatedAfterCreate(p) /\ tree.tampers = 0) => eb[p].valid

\* C13: when a byte of an artifact listed in the manifest of a created bundle
\* has been changed, validation returns invalid with a HASH_MISMATCH error on
\* that artifact's path.
C13_TamperDetected ==
    \A p \in Procs :
        ValidatedAfterCreate(p)
            => \A path \in eb[p].stale :
                   ~eb[p].valid /\ HasError(p, "HASH_MISMATCH", path)

\* C16: once createEvidenceBundle has written manifest.json, no later step
\* of any operation changes or removes it.
C16_ManifestImmutable ==
    [][tree.written => tree'.manifest = tree.manifest]_vars

\* C17: validate-evidence exits with 0 if and only if the bundle it was
\* called on is valid, and with 1 otherwise.
C17_ExitZeroIffValid ==
    \A p \in Procs :
        (eb[p].op = "validate-evidence" /\ eb[p].done /\ ~eb[p].disturbed)
            => /\ eb[p].exit \in {0, 1}
               /\ eb[p].exit = 0 <=> eb[p].wasValid

\* C18: for every manifest entry whose path validateRelativePath rejects, the
\* validator makes no existence check, stat or read of that path, and when it
\* has returned it has reported UNSAFE_PATH for it.
C18_UnsafePathUntouched ==
    \A p \in Procs :
        eb[p].op = "validate"
            => \A i \in DOMAIN eb[p].manifest.artifacts :
                   LET path == eb[p].manifest.artifacts[i].path IN
                   ~validateRelativePath(path).valid
                       => /\ path \notin eb[p].fsAccess
                          /\ eb[p].done => HasError(p, "UNSAFE_PATH", path)

\* A validation has returned on a manifest whose entry is a traversal path:
\* UNSAFE_PATH is reported and no file was looked at.
C18_Witness ==
    \E p \in Procs :
        /\ eb[p].op = "validate"
        /\ eb[p].done
        /\ HasError(p, "UNSAFE_PATH", [abs |-> FALSE, segs |-> <<"..", "..", "a">>])
        /\ eb[p].fsAccess = {}

\* The checks of the policy gate in their fixed order, and those an intent
\* fails under a configuration at a time.
CheckOrder == <<"jobType", "expired", "requester", "size">>
Failing(intent, config, now) ==
    {k \in {"jobType", "expired", "requester", "size"} :
        \/ k = "jobType" /\ intent.jobType \notin config.POLICY_JOBTYPE_ALLOWLIST
        \/ k = "expired" /\ intent.expiresAt # 0 /\ intent.expiresAt < now
        \/ k = "requester" /\ config.requesterAllowlistSet
                           /\ intent.requester \notin config.POLICY_REQUESTER_ALLOWLIST
        \/ k = "size" /\ intent.inputsLen > config.maxBytes}

\* C14: for every intent and configuration, reasons holds exactly one reason
\* for each failing check, whatever failed before it, in the order jobType,
\* expiry, requester, size; allowed means no reason.
C14_AllReasonsInOrder ==
    pf.fn = "evaluatePolicy"
        => /\ pf.result.reasons =
                  SelectSeq(CheckOrder,
                            LAMBDA k : k \in Failing(pf.intent, pf.config, pf.now))
           /\ pf.result.allowed <=> Failing(pf.intent, pf.config, pf.now) = {}

\* An intent failing all four checks got the four reasons.
C14_Witness ==
    /\ pf.fn = "evaluatePolicy"
    /\ Failing(pf.intent, pf.config, pf.now) = {"jobType", "expired", "requester", "size"}
    /\ Len(pf.result.reasons) = 4

\* C20 (as claimed): the intentId of every intent normalizeIntent returns
\* equals the canonical formula over its own fields, whether or not the
\* value carried an intentId.
C20_IntentIdCanonical ==
    (pf.fn = "normalizeIntent" /\ ~pf.result.threw)
        => pf.result.intent.intentId = computeIntentId(pf.result.intent)

\* C20 (amended): the intentId is present; it is the one the value carried
\* when it carried one, and the canonical formula over the intent's own
\* fields otherwise; the other fields of the schema are the value's.
C20_IntentIdKeptOrComputed ==
    (pf.fn = "normalizeIntent" /\ ~pf.result.threw)
        => /\ pf.result.intent.intentId # <<>>
           /\ pf.result.intent.intentId =
                  IF pf.value.intentId # <<>> THEN pf.value.intentId
                  ELSE computeIntentId(pf.result.intent)
           /\ [pf.result.intent EXCEPT !.intentId = <<>>]
                  = [Parsed(pf.value) EXCEPT !.intentId = <<>>]

\* A value carrying an intentId of the requester's choosing was normalized
\* and came back with it.
C20_Witness ==
    /\ pf.fn = "normalizeIntent"
    /\ ~pf.result.threw
    /\ pf.value.intentId = <<"custom-id-123">>
    /\ pf.result.intent.intentId = <<"custom-id-123">>

\* Two invocations of run-fixture on the same intent in the same data
\* directory have both exited with status 0 after executing the job.
RanTwice(p, q) ==
    /\ p # q
    /\ pc[p] = "exited" /\ run[p].exit = 0 /\ ~run[p].dryRun
    /\ pc[q] = "exited" /\ run[q].exit = 0 /\ ~run[q].dryRun
    /\ run[p].intent = run[q].intent

\* The runId is the same and the run directory holds the artifact bytes of
\* that runId.
SameRunAndArtifacts(p, q) ==
    /\ run[p].runId = run[q].runId
    /\ \A name \in ArtifactNames :
           /\ target[name].exists
           /\ target[name].data = FileData(ReportContent(name, run[p].runId))

\* C15: when the same intent has been run twice in the same data directory,
\* both runs computed the same runId, the run directory holds the same
\* artifact bytes, and it holds the one manifest and manifest digest of the
\* run (from which the receipt identifier and the receipt are derived).
C15_RerunIdempotent ==
    \A p, q \in Procs :
        RanTwice(p, q)
            => /\ SameRunAndArtifacts(p, q)
               /\ target["manifest.json"].exists
               /\ target["manifest.sha256"].exists

\* C28: validateRelativePath(p) answers valid if and only if p is non-empty,
\* not absolute, has no segment equal to "..", and has no NUL byte.
C28_ValidIffContract ==
    pf.fn = "validateRelativePath"
        => (pf.result.valid
              <=> /\ ~(~pf.path.abs /\ Len(pf.path.segs) = 0)
                  /\ ~pf.path.abs
                  /\ \A i \in DOMAIN pf.path.segs : pf.path.segs[i] # ".."
                  /\ \A i \in DOMAIN pf.path.segs : ~HasNul(pf.path.segs[i]))

\* The size check added its reason.
SizeRefused == \E i \in DOMAIN pf.result.reasons : pf.result.reasons[i] = "size"

\* C30: an intent whose canonical inputs are exactly maxArtifactMB * 2^20
\* bytes long passes the size check, and one whose canonical inputs are one
\* byte longer gets the "inputs size" reason.
C30_SizeBoundary ==
    pf.fn = "evaluatePolicy"
        => /\ pf.intent.inputsBytes = pf.config.maxBytes => ~SizeRefused
           /\ pf.intent.inputsBytes = pf.config.maxBytes + 1 => SizeRefused

RECURSIVE SameMapping(_, _)
\* v and w are the same value up to the order of keys, at every level.
SameMapping(v, w) ==
    /\ v.kind = w.kind
    /\ v.a = w.a
    /\ KeysOf(v) = KeysOf(w)
    /\ \A k \in KeysOf(v) : SameMapping(ValueAt(v, k), ValueAt(w, k))

\* C22: two mappings that differ only in the order of their keys, at any
\* nesting level, have the same canonical string (and mappings that differ
\* otherwise have different ones), so an id hashed from it is the same.
C22_KeyOrderInsensitive ==
    pf.fn = "canonicalJson"
        => /\ SameMapping(pf.value, pf.other) => pf.result.s1 = pf.result.s2
           /\ pf.result.s1 = pf.result.s2 => SameMapping(pf.value, pf.other)

\* Two objects with their keys in different orders at both levels were
\* serialized to one string.
C22_Witness ==
    /\ pf.fn = "canonicalJson"
    /\ pf.value # pf.other
    /\ InsertionKeys(pf.value) = <<"b", "a">>
    /\ InsertionKeys(pf.other) = <<"a", "b">>
    /\ ValueAt(pf.value, "a").kind = "obj"
    /\ InsertionKeys(ValueAt(pf.value, "a")) = <<"b", "a">>
    /\ InsertionKeys(ValueAt(pf.other, "a")) = <<"a", "b">>
    /\ pf.result.s1 = pf.result.s2

\* C23: two valid intents that agree on intentVersion, requester, jobType,
\* inputs and constraints have the same computed intentId, whatever their
\* createdAt, expiresAt, meta and acceptanceCriteria.
C23_IntentIdIgnoresOtherFields ==
    (/\ pf.fn = "computeIntentId"
     /\ pf.value.intentVersion = pf.other.intentVersion
     /\ pf.value.requester = pf.other.requester
     /\ pf.value.jobType = pf.other.jobType
     /\ pf.value.inputs = pf.other.inputs
     /\ pf.value.constraints = pf.other.constraints)
        => pf.result.id1 = pf.result.id2

\* Two intents differing in createdAt, expiresAt, meta and acceptanceCriteria,
\* and in nothing else, got one intentId.
C23_Witness ==
    /\ pf.fn = "computeIntentId"
    /\ pf.value.createdAt # pf.other.createdAt
    /\ pf.value.expiresAt # pf.other.expiresAt
    /\ pf.value.meta # pf.other.meta
    /\ pf.value.acceptanceCriteria # pf.other.acceptanceCriteria
    /\ pf.value.requester = pf.other.requester
    /\ pf.result.id1 = pf.result.id2

\* C29: a value with a top-level key that the intent schema does not define
\* is rejected by normalizeIntent (it throws), so no intent comes out of it
\* for the policy gate or the runner.
C29_UnknownKeyRejected ==
    (pf.fn = "normalizeIntent" /\ pf.value.extraKey) => pf.result.threw

\* Process p is alive between lockSync and unlockSync of an appendJsonl call.
InLockedSection(p) == aj[p].held /\ pc[p] \in InAppend

\* C24: at most one appendJsonl call on the log file is between acquiring and
\* releasing its lock, whether the lock was taken on the file or, the file
\* not existing yet, on its parent directory.
C24_OneWriterAtATime ==
    \A p, q \in Procs : (InLockedSection(p) /\ InLockedSection(q)) => p = q

\* Process p's appendJsonl call has just failed to acquire its lock.
LockFailed(p) == pc[p] = "aj_threw" /\ aj[p].err = "lock"

\* C25: when lockSync gives up, appendJsonl throws the lock-acquisition
\* error, the step that fails leaves the log file and the temp files as they
\* were, and the caller holds no lock on the file or the directory afterwards.
C25_LockFailureIsClean ==
    [][\A p \in Procs :
          (pc[p] = "aj_lock" /\ pc'[p] = "aj_threw")
              => /\ aj'[p].err = "lock"
                 /\ logFile' = logFile
                 /\ tmpf' = tmpf
                 /\ ~aj'[p].held
                 /\ \A t \in DOMAIN lock : p \notin lock'[t]]_vars

\* A call has failed on the lock while another process holds it.
C25_Witness ==
    \E p, q \in Procs :
        /\ p # q
        /\ LockFailed(p)
        /\ aj[q].held
        /\ pc[q] \in InAppend
        /\ aj[q].lockTarget = aj[p].lockTarget

\* C26: whenever evidence/manifest.json and evidence/manifest.sha256 are both
\* on disk, manifest.sha256 holds the digest (without createdAt) of the
\* manifest.json that is on disk.
C26_DigestMatchesManifest ==
    (tree.manifest.exists /\ tree.digest.exists)
        => tree.digest.digest = computeManifestHash(tree.manifest)

\* The file is a temp file of atomicWrite / writeArtifact: its name, in
\* whatever directory it lies, is .tmp-<suffix>.
IsTempFile(segs) == Len(segs) > 0 /\ segs[Len(segs)] = ".tmp-1"

\* C27: no entry of a manifest built by createEvidenceBundle refers to a
\* .tmp-* file, at the top of artifacts/ or in a directory below it.
C27_NoTempFileInManifest ==
    \A p \in Procs :
        eb[p].op = "create"
            => \A i \in DOMAIN eb[p].entries : ~IsTempFile(eb[p].entries[i].path.segs)

\* Two createEvidenceBundle calls have returned, on the same artifact bytes:
\* no file under artifacts/ changed since the first began.
TwoBundles(p, q) ==
    /\ p # q
    /\ eb[p].op = "create" /\ eb[p].done
    /\ eb[q].op = "create" /\ eb[q].done
    /\ tree.tampers = 0

====
